---------------------------- MODULE Spec2Model ----------------------------
(***************************************************************************)
(* A model of the maze-racer session layer: the concurrent registry       *)
(* (concurrent_map.go), round-result scoring (models.go), the matchmaker  *)
(* and connection actor (main.go) and the session state machine           *)
(* (game.go, broadcaster.go).                                              *)
(***************************************************************************)
EXTENDS Integers, Sequences, FiniteSets, TLC

(***************************************************************************)
(* Bounds of the model.                                                    *)
(***************************************************************************)
\* number of registry workers, each with a key of its own
NumWorkers == 2
\* values written to the registry are 1..MaxVal
MaxVal == 2
\* number of players of the scoring model
NumPlayers == 3
\* player levels of the scoring model are 1..MaxLevel
MaxLevel == 7

\* number of connections (each with its player)
NumClients == 3
\* number of sessions the matchmaker can create
NumGames == 2
\* capacity of a connection's outbound channel (256 in NewClient)
SendCap == 2
\* the history counts up to MaxCount messages of one type per connection
MaxCount == 2
MaxCmds == 3
MaxGone == 2

\* an optional value is a sequence of length at most one
None == <<>>
Some(x) == <<x>>

(***************************************************************************)
(* Generic helpers.                                                        *)
(***************************************************************************)
Range(s) == {s[i] : i \in DOMAIN s}

\* all sequences that list every element of S exactly once
Perms(S) == {s \in [1..Cardinality(S) -> S] : Range(s) = S}

VARIABLES
    \* ---- concurrent registry: mutexMap[K, V] ----
    data,       \* mutexMap.data: key -> Some(value), None when the key is absent
    rwWriter,   \* sync.RWMutex: the workers holding the write lock
    rwReaders,  \* sync.RWMutex: the workers holding the read lock
    wk,         \* per worker: the call in progress and what the last call returned
    owner,      \* which worker uses which key; None: writers ordered in real time
    lastSet,    \* history: per key, the value of the last Set (None after Del)
    \* ---- round-result scoring: GameState ----
    players,    \* per player id: the Player, and whether GameState.Players holds it
    result,     \* what the last GetRoundResult call returned
    prevResult, \* what the call before it returned
    calls,      \* GetRoundResult calls since the state was last modified (capped)
    \* ---- matchmaker, connections and sessions ----
    queue,            \* Matchmaker.sprintQueue and raceQueue, by mode
    headToHeadGames,  \* Matchmaker.headToHeadGames: ids of the registered sessions
    activeChallenges, \* Matchmaker.activeChallenges: session id -> Some(mode)
    cl,         \* per connection: the Client's fields
    th,         \* per goroutine <<c, k>> running code of connection c: pc and locals
    wr,         \* per connection: its write pump (StartWriting)
    gm,         \* per session id: the BaseGame's fields
    loop,       \* per session: its control loop (RunListeners)
    cd,         \* per session: its countdown worker (StartCountdown)
    bc,         \* per session: its round-policy worker (Broadcaster.Start)
    gc,         \* per session: the watcher registerGame starts
    panicked,   \* a goroutine panicked: the process is gone
    got,        \* history: per connection, messages put on its channel, by type
    hist,       \* history: what the claims need to remember of the run
    \* ---- wire messages: StartReading's dispatch and ParseMessage ----
    rd          \* the frame the read loop got, and what the loop did with it

mapVars == <<data, rwWriter, rwReaders, wk, owner, lastSet>>
scoreVars == <<players, result, prevResult, calls>>
mmVars == <<queue, headToHeadGames, activeChallenges>>
mainVars == <<mmVars, cl, th, wr, gm, loop, cd, bc, gc, panicked, got, hist>>
wireVars == <<rd>>
vars == <<mapVars, scoreVars, mainVars, wireVars>>

(***************************************************************************)
(* Concurrent registry (concurrent_map.go, mutexMap).                      *)
(***************************************************************************)
Workers == 1..NumWorkers
\* key 0 is shared by writers ordered in real time; key w belongs to worker w
MapKeys == 0..NumWorkers
Vals == 1..MaxVal

\* a worker between calls; last is the call it completed before the current one
Idle == [pc |-> "idle", op |-> "", key |-> 0, val |-> 0,
         ret |-> <<>>, retSeq |-> <<>>, todo |-> {}, last |-> <<"", 0, 0>>]

\* Values, Keys and Reset read or write every key: a worker calls them when
\* every key is its own
OwnsAll(w) == \A k \in MapKeys : owner[k] = Some(w)

\* the worker record at the start of a call; the record of a caller that
\* uses every key remembers the Set, Del or Reset it completed just before
Call(w, op, k, v) ==
    [Idle EXCEPT !.pc = "locked", !.op = op, !.key = k, !.val = v,
                 !.last = IF OwnsAll(w) /\ wk[w].op \in {"Set", "Del", "Reset"}
                            THEN <<wk[w].op, wk[w].key, wk[w].val>>
                            ELSE <<"", 0, 0>>]

\* the worker record when the call returns: what a Get returned stays with
\* the worker
Return(w, rec) ==
    IF OwnsAll(w) THEN [rec EXCEPT !.pc = "idle"]
    ELSE IF rec.op = "Get"
           THEN [Idle EXCEPT !.op = "Get", !.key = rec.key, !.ret = rec.ret]
           ELSE Idle

\* NewMutexMap: data: make(map[K]V)
NewMutexMap == [k \in MapKeys |-> None]

\* m.Lock() succeeds when nobody holds the mutex
BrokenCanLock(w) == TRUE
CanLock(w) == rwWriter = {} /\ rwReaders = {}

\* m.RLock() succeeds when no writer holds the mutex
CanRLock(w) == rwWriter = {}

\* another worker is inside a critical section while w writes the map:
\* a data race on the Go map, whose outcome is not defined
Raced(w) == rwWriter \ {w} # {} \/ rwReaders \ {w} # {}

\* m.data[key] = value
StoreOnlyNew(d, k, v) == IF d[k] = None THEN [d EXCEPT ![k] = Some(v)] ELSE d
Store(d, k, v) == [d EXCEPT ![k] = Some(v)]

\* delete(m.data, key)
DeleteNothing(d, k) == d
Delete(d, k) == [d EXCEPT ![k] = None]

\* val, exists := m.data[key]
Lookup(d, k) == IF d[k] = None THEN <<0, FALSE>> ELSE <<d[k][1], TRUE>>

\* for k := range m.data
KeysOf(d) == {k \in MapKeys : d[k] # None}

\* a worker may start a call on its own key, or on the shared key when no
\* other call on that key is in flight (writers ordered in real time)
MayUse(w, k) ==
    \/ owner[k] = Some(w)
    \/ /\ owner[k] = None
       /\ \A u \in Workers \ {w} : wk[u].pc = "idle" \/ wk[u].key # k

\* Set, line 36: m.Lock(); defer m.Unlock()
SetLock(w, k, v) ==
    /\ wk[w].pc = "idle"
    /\ MayUse(w, k)
    /\ CanLock(w)
    /\ rwWriter' = rwWriter \cup {w}
    /\ wk' = [wk EXCEPT ![w] = Call(w, "Set", k, v)]
    /\ lastSet' = [lastSet EXCEPT ![k] = Some(v)]
    /\ UNCHANGED <<data, rwReaders, owner>>

\* Set, line 38: m.data[key] = value, then the deferred Unlock
Set(w) ==
    /\ wk[w].pc = "locked" /\ wk[w].op = "Set"
    /\ IF Raced(w)
         THEN data' \in [MapKeys -> {None} \cup {Some(x) : x \in Vals}]
         ELSE data' = Store(data, wk[w].key, wk[w].val)
    /\ rwWriter' = rwWriter \ {w}
    /\ wk' = [wk EXCEPT ![w] = Return(w, wk[w])]
    /\ UNCHANGED <<rwReaders, owner, lastSet>>

\* Del, line 43: m.Lock(); defer m.Unlock()
DelLock(w, k) ==
    /\ wk[w].pc = "idle"
    /\ MayUse(w, k)
    /\ CanLock(w)
    /\ rwWriter' = rwWriter \cup {w}
    /\ wk' = [wk EXCEPT ![w] = Call(w, "Del", k, 0)]
    /\ lastSet' = [lastSet EXCEPT ![k] = None]
    /\ UNCHANGED <<data, rwReaders, owner>>

\* Del, line 45: delete(m.data, key), then the deferred Unlock
Del(w) ==
    /\ wk[w].pc = "locked" /\ wk[w].op = "Del"
    /\ IF Raced(w)
         THEN data' \in [MapKeys -> {None} \cup {Some(x) : x \in Vals}]
         ELSE data' = Delete(data, wk[w].key)
    /\ rwWriter' = rwWriter \ {w}
    /\ wk' = [wk EXCEPT ![w] = Return(w, wk[w])]
    /\ UNCHANGED <<rwReaders, owner, lastSet>>

\* Get, line 50: m.RLock(); defer m.RUnlock()
GetLock(w, k) ==
    /\ wk[w].pc = "idle"
    /\ MayUse(w, k)
    /\ CanRLock(w)
    /\ rwReaders' = rwReaders \cup {w}
    /\ wk' = [wk EXCEPT ![w] = Call(w, "Get", k, 0)]
    /\ UNCHANGED <<data, rwWriter, owner, lastSet>>

\* Get, lines 52-53: val, exists := m.data[key]; return, then the deferred RUnlock
Get(w) ==
    /\ wk[w].pc = "locked" /\ wk[w].op = "Get"
    /\ wk' = [wk EXCEPT ![w] = Return(w, [wk[w] EXCEPT !.ret = Lookup(data, wk[w].key)])]
    /\ rwReaders' = rwReaders \ {w}
    /\ UNCHANGED <<data, rwWriter, owner, lastSet>>

\* Values, line 58: m.RLock(); defer m.RUnlock()
ValuesLock(w) ==
    /\ wk[w].pc = "idle"
    /\ OwnsAll(w)
    /\ CanRLock(w)
    /\ rwReaders' = rwReaders \cup {w}
    /\ wk' = [wk EXCEPT ![w] = Call(w, "Values", 0, 0)]
    /\ UNCHANGED <<data, rwWriter, owner, lastSet>>

\* the values of d listed in the order ks of its keys
ValuesInOrder(d, ks) == [i \in 1..Len(ks) |-> d[ks[i]][1]]

\* Values, lines 60-64: for _, v := range m.data { values = append(values, v) };
\* the iteration order of a Go map is not specified
Values(w) ==
    /\ wk[w].pc = "locked" /\ wk[w].op = "Values"
    /\ \E ks \in Perms(KeysOf(data)) :
          wk' = [wk EXCEPT ![w].pc = "idle", ![w].retSeq = ValuesInOrder(data, ks)]
    /\ rwReaders' = rwReaders \ {w}
    /\ UNCHANGED <<data, rwWriter, owner, lastSet>>

\* Keys, line 69: m.RLock(); defer m.RUnlock()
KeysLock(w) ==
    /\ wk[w].pc = "idle"
    /\ OwnsAll(w)
    /\ CanRLock(w)
    /\ rwReaders' = rwReaders \cup {w}
    /\ wk' = [wk EXCEPT ![w] = Call(w, "Keys", 0, 0)]
    /\ UNCHANGED <<data, rwWriter, owner, lastSet>>

\* Keys, lines 71-75: for k := range m.data { keys = append(keys, k) }
Keys(w) ==
    /\ wk[w].pc = "locked" /\ wk[w].op = "Keys"
    /\ \E ks \in Perms(KeysOf(data)) :
          wk' = [wk EXCEPT ![w].pc = "idle", ![w].retSeq = ks]
    /\ rwReaders' = rwReaders \ {w}
    /\ UNCHANGED <<data, rwWriter, owner, lastSet>>

\* Reset, line 80: m.Keys(), whose first step is m.RLock()
ResetKeysLock(w) ==
    /\ wk[w].pc = "idle"
    /\ OwnsAll(w)
    /\ CanRLock(w)
    /\ rwReaders' = rwReaders \cup {w}
    /\ wk' = [wk EXCEPT ![w] = Call(w, "Reset", 0, 0)]
    /\ UNCHANGED <<data, rwWriter, owner, lastSet>>

\* Reset, line 80: the keys m.Keys() returns are the ones the loop will delete
ResetKeys(w) ==
    /\ wk[w].pc = "locked" /\ wk[w].op = "Reset"
    /\ wk' = [wk EXCEPT ![w].todo = KeysOf(data),
                        ![w].pc = IF KeysOf(data) = {} THEN "idle" ELSE "reset"]
    /\ rwReaders' = rwReaders \ {w}
    /\ UNCHANGED <<data, rwWriter, owner, lastSet>>

\* Reset, line 81: m.Del(k) for the next key of the loop, whose first step is m.Lock()
ResetDelLock(w) ==
    /\ wk[w].pc = "reset"
    /\ CanLock(w)
    /\ \E k \in wk[w].todo :
          /\ wk' = [wk EXCEPT ![w].pc = "resetDel", ![w].key = k]
          /\ lastSet' = [lastSet EXCEPT ![k] = None]
    /\ rwWriter' = rwWriter \cup {w}
    /\ UNCHANGED <<data, rwReaders, owner>>

\* Reset, line 81: m.Del(k): delete(m.data, k) and the deferred Unlock
ResetDel(w) ==
    /\ wk[w].pc = "resetDel"
    /\ IF Raced(w)
         THEN data' \in [MapKeys -> {None} \cup {Some(x) : x \in Vals}]
         ELSE data' = Delete(data, wk[w].key)
    /\ rwWriter' = rwWriter \ {w}
    /\ wk' = [wk EXCEPT ![w].todo = @ \ {wk[w].key},
                        ![w].key = 0,
                        ![w].pc = IF wk[w].todo = {wk[w].key} THEN "idle" ELSE "reset"]
    /\ UNCHANGED <<rwReaders, owner, lastSet>>

MapInit ==
    /\ data = NewMutexMap
    /\ rwWriter = {}
    /\ rwReaders = {}
    /\ wk = [w \in Workers |-> Idle]
    /\ lastSet = [k \in MapKeys |-> None]

(***************************************************************************)
(* Round-result scoring (models.go, GameState.GetRoundResult).             *)
(***************************************************************************)
PlayerIds == 1..NumPlayers
Levels == 1..MaxLevel

\* the names and flags the players connect with
Usernames == <<"player1", "player2", "player3", "player4">>
Flags == <<"US", "UK", "FR", "US">>

\* NewPlayer(username, flag): Level: 1
NewPlayer(p) ==
    [Username |-> Usernames[p], Flag |-> Flags[p], Level |-> 1, present |-> FALSE]

\* gs.Players.Values(): the players the registry holds
Present == {p \in PlayerIds : players[p].present}

\* PlayerScore{Username: p.Username, Flag: p.Flag, Level: p.Level}
PlayerScore(p) ==
    [Username |-> players[p].Username, Flag |-> players[p].Flag,
     Level |-> players[p].Level]

\* cmp.Compare(x, y)
Compare(x, y) == IF x < y THEN -1 ELSE IF x > y THEN 1 ELSE 0

\* the comparison GetRoundResult sorts by: cmp.Compare(b.Level, a.Level)
CmpAscending(a, b) == Compare(a.Level, b.Level)
Cmp(a, b) == Compare(b.Level, a.Level)

\* one pass of the insertion sort slices.SortFunc runs on a short slice: x
\* moves left past every element it compares less than
RECURSIVE Insert(_, _)
Insert(s, x) ==
    IF s # <<>> /\ Cmp(x, s[Len(s)]) < 0
      THEN Append(Insert(SubSeq(s, 1, Len(s) - 1), x), s[Len(s)])
      ELSE Append(s, x)

\* slices.SortFunc(playerScores, cmp)
RECURSIVE SortFunc(_)
SortFunc(s) ==
    IF s = <<>> THEN <<>>
    ELSE Insert(SortFunc(SubSeq(s, 1, Len(s) - 1)), s[Len(s)])

\* game.go line 175: g.State.Players.Set(client.player.Id, client.player)
PlayersSet(p) ==
    /\ ~players[p].present
    /\ players' = [players EXCEPT ![p].present = TRUE]
    /\ result' = <<>> /\ prevResult' = <<>> /\ calls' = 0

\* game.go line 185: g.State.Players.Del(client.player.Id)
PlayersDel(p) ==
    /\ players[p].present
    /\ players' = [players EXCEPT ![p].present = FALSE]
    /\ result' = <<>> /\ prevResult' = <<>> /\ calls' = 0

\* main.go line 1557: cl.player.Level = req.Level
PlayerLevelUpdate(p, lvl) ==
    /\ players[p].Level # lvl
    /\ players' = [players EXCEPT ![p].Level = lvl]
    /\ result' = <<>> /\ prevResult' = <<>> /\ calls' = 0

\* GetRoundResult: one score per value of gs.Players.Values(), in the order
\* the registry's map is iterated (not specified), then sorted
GetRoundResult ==
    /\ calls < 2
    /\ \E ks \in Perms(Present) :
          result' = SortFunc([i \in 1..Len(ks) |-> PlayerScore(ks[i])])
    /\ prevResult' = result
    /\ calls' = calls + 1
    /\ UNCHANGED players

ScoreIdle ==
    /\ players = [p \in PlayerIds |-> NewPlayer(p)]
    /\ result = <<>>
    /\ prevResult = <<>>
    /\ calls = 0

(***************************************************************************)
(* Matchmaker and connection actor (main.go).                              *)
(***************************************************************************)
Clients == 1..NumClients
GameIds == 1..NumGames

\* GameMode: ModeSprint, ModeRace
ModeSprint == "sprint"
ModeRace == "race"
Modes == {ModeSprint, ModeRace}

\* ClientStatus; a new Client has the zero value
StatusNone == ""
StatusConfirming == "confirming"
StatusReady == "ready"
StatusInGame == "in_game"

\* the response types the history counts per connection
Tracked == {"queue_left", "game_cancelled", "challenge_created",
            "challenge_stale", "join_running_game"}

\* NewMatchmaker: activeChallenges: NewMutexMap[string, GameMode]()
NoChallenges == [g \in GameIds |-> None]

\* the goroutines that run code of a connection: <<c, 1>> is its read pump
\* (StartReading); <<c, 2>> is a second caller of c.Cleanup()
Threads == Clients \X {1, 2}

\* NewClient: activeGame: nil, send: make(chan []byte, 256), a live context
NewClient ==
    [status |-> StatusNone, activeGame |-> None, sendLen |-> 0,
     sendClosed |-> FALSE, sendNil |-> FALSE, ctxDone |-> FALSE, active |-> FALSE]

\* a goroutine of a connection and its locals
NewThread(k) ==
    [pc |-> IF k = 1 THEN "read" ELSE "none", mode |-> ModeSprint, game |-> 0,
     client1 |-> 0, client2 |-> 0, ret |-> "", level |-> 0, pending |-> FALSE]

\* NewGame: no client, live context, open countdownDone; detached is
\* history: the clients whose detach the control loop received while it was
\* counting down with them and one other client attached
NoGame ==
    [created |-> FALSE, Mode |-> ModeSprint, Clients |-> {}, Players |-> {},
     ctxDone |-> FALSE, countdownDone |-> FALSE, detached |-> {}, MaxLevel |-> 0]

NewGame(mode) == [NoGame EXCEPT !.created = TRUE, !.Mode = mode]

\* the id gonanoid gives the next session
FreshIds == {g \in GameIds : ~gm[g].created}
FreshId == CHOOSE g \in FreshIds : \A h \in FreshIds : g <= h

\* ch <- v on a connection's outbound channel can proceed: the channel is not
\* nil (a send on a nil channel blocks forever) and it is closed (the send
\* panics) or has room
CanSend(x) == ~cl[x].sendNil /\ (cl[x].sendClosed \/ cl[x].sendLen < SendCap)

\* the send panics
SendPanics(x) == ~cl[x].sendNil /\ cl[x].sendClosed

\* the connection records after message m is put on x's channel
Push(clf, x) == [clf EXCEPT ![x].sendLen = @ + 1]
Count(gotf, x, m) ==
    IF m \in Tracked /\ gotf[x][m] < MaxCount
      THEN [gotf EXCEPT ![x][m] = @ + 1] ELSE gotf

\* the runtime errors; a panic ends the process
SendOnClosed == "send on closed channel"
CancelOnClosed == "send of game_cancelled on closed channel"
RejectOnClosed == "send of join_running_game on closed channel"
CloseOfClosed == "close of closed channel"
CloseOfNil == "close of nil channel"
OutOfRange == "slice bounds out of range"
NilDereference == "nil pointer dereference"
Running == panicked = ""
Panic(why) == panicked' = why

T(c) == <<c, 1>>

\* goroutine t at pc, its locals out of scope
At(t, pc) == [NewThread(t[2]) EXCEPT !.pc = pc]

\* slices.Contains(queue, c)
Contains(q, c) == \E i \in DOMAIN q : q[i] = c

\* q[1:]
Drop1(q) == SubSeq(q, 2, Len(q))
\* q[2:]
Drop2(q) == SubSeq(q, 3, Len(q))

\* q[:1]
Take1(q) == SubSeq(q, 1, 1)

\* q without c
FilterOut(q, c) == SelectSeq(q, LAMBDA x : x # c)

\* the history of join-queue commands: client and mode, in the order the
\* AddToQueue calls began, while each began after the one before had returned
\* and no other command was read
InFlight == {t \in Threads : th[t].pc \notin {"read", "none", "done"}}
LogJoin(c, mode) ==
    IF hist.onlyJoins /\ InFlight = {} /\ Len(hist.joins) < 3
      THEN [hist EXCEPT !.joins = Append(@, <<c, mode>>), !.cmds = @ + 1]
      ELSE [hist EXCEPT !.joins = <<>>, !.onlyJoins = FALSE, !.cmds = @ + 1]
LogOther == [hist EXCEPT !.joins = <<>>, !.onlyJoins = FALSE, !.cmds = @ + 1]

\* the read pump of c returns from ReadMessage: at most MaxCmds times in
\* all, at most MaxGone times with an error
Reads(c) == th[T(c)].pc = "read" /\ hist.cmds < MaxCmds

\* sessions that calls in flight may still have to create
Creating == {t \in Threads : th[t].pc \in {"aq.joined"}}

\* an invalid GameMode of a request
ModeOther == "other"

\* the session ids a client can name in accept_challenge: any string, except
\* the id of a session whose creating call has not yet returned
Known(id) ==
    ~\E t \in Threads : th[t].game = id /\ th[t].pc \in {"aq.add1", "aq.add2", "aq.pop",
                                                       "cc.add", "cc.set", "cc.created"}

\* CreateChallengeGame, lines 1371-1378, the switch on mode with every mode
\* taken for a game mode
AnyMode(mode) == TRUE

\* CreateChallengeGame, lines 1371-1378: the switch on mode has a case for
\* ModeSprint and one for ModeRace; default returns an error
ValidMode(mode) == mode \in Modes

\* StartReading reads create_challenge: HandleCreateChallenge ->
\* CreateChallengeGame, lines 1370-1381: the game of the mode is created and
\* registered (registerGame starts its watcher) and its RunListeners started;
\* an invalid mode returns an error
RecvCreateChallenge(c, mode) ==
    LET g == FreshId
    IN  /\ Reads(c)
        /\ hist' = LogOther
        /\ IF ValidMode(mode)
             THEN /\ Cardinality(FreshIds) > Cardinality(Creating)
                  /\ gm' = [gm EXCEPT ![g] = NewGame(mode)]
                  /\ headToHeadGames' = headToHeadGames \cup {g}
                  /\ gc' = [gc EXCEPT ![g] = "waiting"]
                  /\ loop' = [loop EXCEPT ![g].pc = "p1"]
                  /\ th' = [th EXCEPT ![T(c)].pc = "cc.add", ![T(c)].game = g,
                                      ![T(c)].mode = mode]
             ELSE UNCHANGED <<gm, headToHeadGames, gc, loop, th>>
        /\ UNCHANGED <<queue, activeChallenges, cl, wr, cd, bc, panicked, got>>

\* CreateChallengeGame, line 1383: m.activeChallenges.Set(id, mode)
CreateChallengeSet(c) ==
    LET t == T(c)
    IN  /\ th[t].pc = "cc.set"
        /\ activeChallenges' = [activeChallenges EXCEPT ![th[t].game] = Some(th[t].mode)]
        /\ th' = [th EXCEPT ![t].pc = "cc.created"]
        /\ UNCHANGED <<queue, headToHeadGames, cl, wr, gm, loop, cd, bc, gc, panicked,
                       got, hist>>

\* CreateChallengeGame, lines 1384-1388: c.send <- createdMsg; return nil
CreateChallengeGame(c) ==
    LET t == T(c)
    IN  /\ th[t].pc = "cc.created"
        /\ CanSend(c)
        /\ UNCHANGED activeChallenges
        /\ IF SendPanics(c)
             THEN Panic(SendOnClosed) /\ UNCHANGED <<cl, th, got>>
             ELSE /\ cl' = Push(cl, c)
                  /\ got' = Count(got, c, "challenge_created")
                  /\ th' = [th EXCEPT ![t] = At(t, "read")]
                  /\ UNCHANGED panicked
        /\ UNCHANGED <<queue, headToHeadGames, wr, gm, loop, cd, bc, gc, hist>>

\* StartReading reads accept_challenge: HandleAcceptChallenge ->
\* AcceptChallenge, lines 1399-1402: the id is looked up in headToHeadGames;
\* when found, m.activeChallenges.Del(id), up to the send on game.Add();
\* pending records whether id was a pending challenge at the lookup (the
\* code does not look)
RecvAcceptChallenge(c, id) ==
    /\ Reads(c)
    /\ Known(id)
    /\ hist' = LogOther
    /\ IF id \in headToHeadGames
         THEN /\ activeChallenges' = [activeChallenges EXCEPT ![id] = None]
              /\ th' = [th EXCEPT ![T(c)].pc = "ac.add", ![T(c)].game = id,
                                  ![T(c)].pending = activeChallenges[id] # None]
         ELSE /\ th' = [th EXCEPT ![T(c)].pc = "ac.stale", ![T(c)].game = id,
                                  ![T(c)].pending = activeChallenges[id] # None]
              /\ UNCHANGED activeChallenges
    /\ UNCHANGED <<queue, headToHeadGames, cl, wr, gm, loop, cd, bc, gc, panicked, got>>

\* HandleAcceptChallenge, lines 1575-1579: AcceptChallenge returned an error:
\* cl.send <- msg (challenge_stale)
AcceptChallengeStale(c) ==
    LET t == T(c)
    IN  /\ th[t].pc = "ac.stale"
        /\ CanSend(c)
        /\ IF SendPanics(c)
             THEN Panic(SendOnClosed) /\ UNCHANGED <<cl, th, got>>
             ELSE /\ cl' = Push(cl, c)
                  /\ got' = Count(got, c, "challenge_stale")
                  /\ th' = [th EXCEPT ![t] = At(t, "read")]
                  /\ UNCHANGED panicked
        /\ UNCHANGED <<mmVars, wr, gm, loop, cd, bc, gc, hist>>

\* StartReading reads join_queue: HandleJoinQueue -> AddToQueue, lines
\* 1244/1280: m.queue = append(m.queue, c), up to the send of queue_joined
RecvJoinQueue(c, mode) ==
    /\ Reads(c)
    /\ Cardinality(FreshIds) > Cardinality(Creating)
    /\ queue' = [queue EXCEPT ![mode] = Append(@, c)]
    /\ th' = [th EXCEPT ![T(c)].pc = "aq.joined", ![T(c)].mode = mode]
    /\ hist' = LogJoin(c, mode)
    /\ UNCHANGED <<headToHeadGames, activeChallenges, cl, wr, gm, loop, cd, bc, gc,
                   panicked, got>>

\* AddToQueue, lines 1257-1270: c.send <- queueJoined; with two or more
\* queued: client1, client2 := queue[0], queue[1]; the game is created and
\* registered (registerGame starts its watcher) and its RunListeners started
AddToQueueJoined(c) ==
    LET t == T(c)
        m == th[t].mode
        g == FreshId
    IN  /\ th[t].pc = "aq.joined"
        /\ CanSend(c)
        /\ IF SendPanics(c)
             THEN Panic(SendOnClosed) /\ UNCHANGED <<mmVars, cl, th, wr, gm, loop, cd, bc, gc, got, hist>>
             ELSE /\ cl' = Push(cl, c)
                  /\ got' = Count(got, c, "queue_joined")
                  /\ IF Len(queue[m]) >= 2
                       THEN /\ gm' = [gm EXCEPT ![g] = NewGame(m)]
                            /\ headToHeadGames' = headToHeadGames \cup {g}
                            /\ gc' = [gc EXCEPT ![g] = "waiting"]
                            /\ loop' = [loop EXCEPT ![g].pc = "p1"]
                            /\ th' = [th EXCEPT ![t].pc = "aq.add1", ![t].game = g,
                                                ![t].client1 = queue[m][1],
                                                ![t].client2 = queue[m][2]]
                       ELSE /\ th' = [th EXCEPT ![t] = At(t, "read")]
                            /\ UNCHANGED <<gm, headToHeadGames, gc, loop>>
                  /\ UNCHANGED <<queue, activeChallenges, wr, cd, bc, panicked, hist>>

\* AddToQueue, lines 1275/1311: m.queue = m.queue[2:]
AddToQueuePop(c) ==
    LET t == T(c)
        m == th[t].mode
    IN  /\ th[t].pc = "aq.pop"
        /\ IF Len(queue[m]) < 2
             THEN Panic(OutOfRange) /\ UNCHANGED <<mmVars, th>>
             ELSE /\ queue' = [queue EXCEPT ![m] = Drop2(@)]
                  /\ th' = [th EXCEPT ![t] = At(t, "read")]
                  /\ UNCHANGED <<headToHeadGames, activeChallenges, panicked>>
        /\ UNCHANGED <<cl, wr, gm, loop, cd, bc, gc, got, hist>>

\* RemoveFromQueue, lines 1323-1351, without its last line: a client in
\* neither queue is taken for one of the sprint queue
RemoveFromQueueAlways(t, ret, notFound) ==
    [th[t] EXCEPT !.pc = "rq.left",
                  !.mode = IF Contains(queue[ModeRace], t[1]) THEN ModeRace ELSE ModeSprint,
                  !.ret = ret]

\* RemoveFromQueue, lines 1323-1351, up to the send of queue_left: the queue
\* that holds c, the sprint queue first; an error when none does
RemoveFromQueueFind(t, ret, notFound) ==
    LET c == t[1]
    IN  IF Contains(queue[ModeSprint], c)
          THEN [th[t] EXCEPT !.pc = "rq.left", !.mode = ModeSprint, !.ret = ret]
          ELSE IF Contains(queue[ModeRace], c)
                 THEN [th[t] EXCEPT !.pc = "rq.left", !.mode = ModeRace, !.ret = ret]
                 ELSE At(t, notFound)

\* StartReading reads leave_queue: HandleLeaveQueue -> RemoveFromQueue
RecvLeaveQueue(c) ==
    /\ Reads(c)
    /\ th' = [th EXCEPT ![T(c)] = RemoveFromQueueFind(T(c), "read", "read")]
    /\ hist' = LogOther
    /\ UNCHANGED <<mmVars, cl, wr, gm, loop, cd, bc, gc, panicked, got>>

\* RemoveFromQueue, lines 1332-1334/1346-1348: c.send <- queueLeft;
\* m.queue = m.queue[:1]; return nil
RemoveFromQueue(t) ==
    LET c == t[1]
        m == th[t].mode
    IN  /\ th[t].pc = "rq.left"
        /\ CanSend(c)
        /\ IF SendPanics(c)
             THEN Panic(SendOnClosed) /\ UNCHANGED <<queue, cl, th, got>>
             ELSE IF queue[m] = <<>>
               THEN \* the queue was emptied since the Contains: q[:1] is out
                    \* of range, or within the capacity and a popped entry
                    \/ Panic(OutOfRange) /\ UNCHANGED <<queue, cl, th, got>>
                    \/ /\ cl' = Push(cl, c)
                       /\ got' = Count(got, c, "queue_left")
                       /\ \E x \in Clients : queue' = [queue EXCEPT ![m] = <<x>>]
                       /\ th' = [th EXCEPT ![t] = At(t, th[t].ret)]
                       /\ UNCHANGED panicked
               ELSE /\ cl' = Push(cl, c)
                    /\ got' = Count(got, c, "queue_left")
                    /\ queue' = [queue EXCEPT ![m] = Take1(@)]
                    /\ th' = [th EXCEPT ![t] = At(t, th[t].ret)]
                    /\ UNCHANGED panicked
        /\ UNCHANGED <<headToHeadGames, activeChallenges, wr, gm, loop, cd, bc, gc, hist>>

\* Cleanup, lines 1602-1604: cl.cancel(); cl.mm.RemoveFromQueue(cl), up to
\* its send of queue_left
CleanupBegin(t) ==
    /\ cl' = [cl EXCEPT ![t[1]].ctxDone = TRUE]
    /\ th' = [th EXCEPT ![t] = RemoveFromQueueFind(t, "cu.game", "cu.game")]
    /\ UNCHANGED <<mmVars, wr, gm, loop, cd, bc, gc, panicked, got>>

\* StartReading: ReadMessage fails (the peer is gone); defer cl.Cleanup()
RecvError(c) ==
    /\ Reads(c)
    /\ hist.gone < MaxGone
    /\ CleanupBegin(T(c))
    /\ hist' = [LogOther EXCEPT !.gone = @ + 1]

\* a second caller of c.Cleanup() while the first call is running
CleanupAgain(c) ==
    /\ th[<<c, 2>>].pc = "none"
    /\ th[T(c)].pc \in {"rq.left", "cu.game", "cu.remove", "cu.check", "cu.close", "cu.nil"}
    /\ th[T(c)].pc = "rq.left" => th[T(c)].ret = "cu.game"
    /\ CleanupBegin(<<c, 2>>)
    /\ UNCHANGED hist

\* Cleanup, line 1610: if cl.activeGame != nil
CleanupGame(t) ==
    /\ th[t].pc = "cu.game"
    /\ th' = [th EXCEPT ![t].pc = IF cl[t[1]].activeGame # None THEN "cu.remove"
                                                                ELSE "cu.check"]
    /\ UNCHANGED <<mmVars, cl, wr, gm, loop, cd, bc, gc, panicked, got, hist>>

\* Cleanup, line 1622: if cl.send != nil
CleanupCheck(t) ==
    /\ th[t].pc = "cu.check"
    /\ th' = [th EXCEPT ![t].pc = IF cl[t[1]].sendNil THEN "done" ELSE "cu.close"]
    /\ UNCHANGED <<mmVars, cl, wr, gm, loop, cd, bc, gc, panicked, got, hist>>

\* Cleanup, line 1623: close(cl.send); closing a closed or a nil channel panics
CleanupClose(t) ==
    /\ th[t].pc = "cu.close"
    /\ IF cl[t[1]].sendClosed \/ cl[t[1]].sendNil
         THEN /\ Panic(IF cl[t[1]].sendNil THEN CloseOfNil ELSE CloseOfClosed)
              /\ UNCHANGED <<cl, th>>
         ELSE /\ cl' = [cl EXCEPT ![t[1]].sendClosed = TRUE]
              /\ th' = [th EXCEPT ![t].pc = "cu.nil"]
              /\ UNCHANGED panicked
    /\ UNCHANGED <<mmVars, wr, gm, loop, cd, bc, gc, got, hist>>

\* Cleanup, lines 1624-1628: cl.send = nil; cl.ws.Close()
CleanupNil(t) ==
    /\ th[t].pc = "cu.nil"
    /\ cl' = [cl EXCEPT ![t[1]].sendNil = TRUE]
    /\ th' = [th EXCEPT ![t].pc = "done"]
    /\ UNCHANGED <<mmVars, wr, gm, loop, cd, bc, gc, panicked, got, hist>>

\* StartWriting, lines 1589-1593: a message is taken off cl.send and written
WriterWrite(c) ==
    /\ wr[c] = "run"
    /\ ~cl[c].sendNil
    /\ cl[c].sendLen > 0
    /\ cl' = [cl EXCEPT ![c].sendLen = @ - 1]
    /\ UNCHANGED <<mmVars, th, wr, gm, loop, cd, bc, gc, panicked, got, hist>>

\* StartWriting, lines 1587-1592: the context is done, or cl.send is closed
\* and drained: return
WriterStop(c) ==
    /\ wr[c] = "run"
    /\ cl[c].ctxDone \/ (~cl[c].sendNil /\ cl[c].sendClosed /\ cl[c].sendLen = 0)
    /\ wr' = [wr EXCEPT ![c] = "exited"]
    /\ UNCHANGED <<mmVars, cl, th, gm, loop, cd, bc, gc, panicked, got, hist>>

(***************************************************************************)
(* Session: control loop and countdown worker (game.go).                   *)
(***************************************************************************)
\* StartCountdown: defaultCountdown, readyCountdown, in seconds
DefaultCountdown == 30
ReadyCountdown == 5

\* the round-policy worker before `go g.BroadcastState()`: msg is the
\* message it is about to send on g.Broadcast, seen the MaxLevel it read at
\* the tick that chose msg; expired, results and lateUpdate are history: the
\* round timer has fired, the round_result messages the control loop has
\* taken, and whether it took a game-state update after one
NoPolicy ==
    [pc |-> "none", msg |-> "", seen |-> 0, expired |-> FALSE, results |-> 0,
     lateUpdate |-> FALSE]

\* RunListeners before `go game.RunListeners()`
NoLoop == [pc |-> "none", countdownStarted |-> FALSE, todo |-> {}, arg |-> 0]

\* StartCountdown before `go g.StartCountdown()`; client is the range
\* variable between `client.send <- confirmMsg` and client.SetStatus, and
\* readyBefore whether that client was ready at the send; attached is history: the
\* clients attached when the worker was started; ticks and lastSent: the
\* ticks the worker has taken (counted up to one past defaultCountdown) and
\* the seconds it broadcast last (defaultCountdown before the first
\* broadcast); allReadyMet, sinceAllReady,
\* clamped and sinceClamp are history: whether every attached client has been
\* ready with more than readyCountdown left, the ticks since, whether
\* timeLeft has been set to readyCountdown, and the ticks since
NoCountdown ==
    [pc |-> "none", visited |-> {}, client |-> None, readyBefore |-> FALSE,
     attached |-> {}, timeLeft |-> 0, ticks |-> 0,
     lastSent |-> DefaultCountdown, allReadyMet |-> FALSE,
     sinceAllReady |-> 0, clamped |-> FALSE, sinceClamp |-> 0]

\* CheckAllPlayersReady
CheckAllPlayersReady(clf, g) ==
    \A x \in gm[g].Clients : clf[x].status = StatusReady

\* the history of the all-ready condition of the sessions that are counting
\* down, given the connection records after a step
NoteAllReady(cdf, clf) ==
    [g \in GameIds |->
        IF /\ cdf[g].pc \in {"wait", "send", "check"}
           /\ cdf[g].timeLeft > ReadyCountdown
           /\ gm[g].Clients # {}
           /\ CheckAllPlayersReady(clf, g)
          THEN [cdf[g] EXCEPT !.allReadyMet = TRUE]
          ELSE cdf[g]]

\* the places where a goroutine is at `game.Add() <- client`: AddToQueue
\* (lines 1272-1273), CreateChallengeGame (1382), AcceptChallenge (1403);
\* the client it sends, and where it is once the loop has received
AddPcs == {"aq.add1", "aq.add2", "cc.add", "ac.add"}
AddArg(t) ==
    IF th[t].pc = "aq.add1" THEN th[t].client1
    ELSE IF th[t].pc = "aq.add2" THEN th[t].client2
    ELSE t[1]
AfterAdd(t) ==
    IF th[t].pc = "aq.add1" THEN [th[t] EXCEPT !.pc = "aq.add2"]
    ELSE IF th[t].pc = "aq.add2" THEN [th[t] EXCEPT !.pc = "aq.pop"]
    ELSE IF th[t].pc = "cc.add" THEN [th[t] EXCEPT !.pc = "cc.set"]
    ELSE At(t, "read")

\* the control loop is blocked in one of its two selects
AtSelect(g) == loop[g].pc \in {"p1", "p2"}

\* a case of the loop's select other than remove can be taken: the countdown
\* is done (phase 1) or a sender is at g.add or g.Broadcast
OtherCaseReady(g) ==
    \/ loop[g].pc = "p1" /\ gm[g].countdownDone
    \/ \E t \in Threads : th[t].pc \in AddPcs /\ th[t].game = g
    \/ cd[g].pc = "send"

\* RunListeners, lines 171-180: client := <-g.add in phase 1; and lines
\* 219-222: in phase 2, up to the send of join_running_game
LoopAdd(g, t) ==
    LET x == AddArg(t)
        n == Cardinality(gm[g].Clients \cup {x})
        start == n >= 2 /\ ~loop[g].countdownStarted
    IN  /\ AtSelect(g)
        /\ th[t].pc \in AddPcs
        /\ th[t].game = g
        /\ th' = [th EXCEPT ![t] = AfterAdd(t)]
        /\ IF loop[g].pc = "p1"
             THEN /\ cl' = [cl EXCEPT ![x].activeGame = Some(g), ![x].active = TRUE]
                  /\ gm' = [gm EXCEPT ![g].Clients = @ \cup {x}, ![g].Players = @ \cup {x}]
                  /\ loop' = [loop EXCEPT ![g].countdownStarted = @ \/ start]
                  /\ cd' = IF start THEN [cd EXCEPT ![g].pc = "confirm",
                                                     ![g].attached = gm[g].Clients \cup {x}]
                                     ELSE cd
             ELSE /\ loop' = [loop EXCEPT ![g].pc = "reject", ![g].arg = x]
                  /\ UNCHANGED <<cl, gm, cd>>
        /\ UNCHANGED <<mmVars, wr, bc, gc, panicked, got, hist>>

\* RunListeners, line 222: client.send <- msg (join_running_game)
LoopReject(g) ==
    LET x == loop[g].arg
    IN  /\ loop[g].pc = "reject"
        /\ CanSend(x)
        /\ IF SendPanics(x)
             THEN Panic(RejectOnClosed) /\ UNCHANGED <<cl, loop, got>>
             ELSE /\ cl' = Push(cl, x)
                  /\ got' = Count(got, x, "join_running_game")
                  /\ loop' = [loop EXCEPT ![g].pc = "p2", ![g].arg = 0]
                  /\ UNCHANGED panicked
        /\ UNCHANGED <<mmVars, th, wr, gm, cd, bc, gc, hist>>

\* g.State.Players.Del(client.player.Id), lines 185 and 226
StatePlayersKeep(P, x) == P
StatePlayersDel(P, x) == P \ {x}

\* RunListeners, lines 182-199 and 223-241: the session after
\* client := <-g.remove, up to the sends of game_cancelled
AfterRemove(g, x) ==
    LET rest == gm[g].Clients \ {x}
        orphaned == IF loop[g].pc = "p1"
                      THEN Cardinality(rest) < 2 /\ loop[g].countdownStarted
                      ELSE x \in gm[g].Clients /\ Cardinality(rest) < 2
    IN  [gmg |-> [gm[g] EXCEPT !.Clients = rest,
                           !.Players = IF x \in gm[g].Clients
                                        THEN StatePlayersDel(@, x) ELSE @],
         lp |-> IF orphaned THEN [loop[g] EXCEPT !.pc = "cancel", !.todo = rest]
                            ELSE loop[g]]

\* Cleanup, lines 1612-1618: cl.activeGame.Remove() <- cl when the loop is
\* receiving, else default; cl.activeGame = nil; cl.player.Active = false.
\* cl.activeGame is read again after the check of line 1610: when the session
\* has set it to nil in between, the call on the nil Game panics
CleanupRemove(t) ==
    LET c == t[1]
        g == cl[c].activeGame[1]
        counting == /\ loop[g].pc = "p1" /\ loop[g].countdownStarted
                    /\ ~gm[g].countdownDone
                    /\ c \in gm[g].Clients /\ Cardinality(gm[g].Clients) = 2
        Note(gmg) == IF counting THEN [gmg EXCEPT !.detached = @ \cup {c}] ELSE gmg
    IN  /\ th[t].pc = "cu.remove"
        /\ IF cl[c].activeGame = None
             THEN Panic(NilDereference) /\ UNCHANGED <<cl, th, gm, loop>>
             ELSE /\ \/ /\ AtSelect(g)
                        /\ gm' = [gm EXCEPT ![g] = Note(AfterRemove(g, c).gmg)]
                        /\ loop' = [loop EXCEPT ![g] = AfterRemove(g, c).lp]
                     \/ /\ ~AtSelect(g) \/ OtherCaseReady(g)
                        /\ UNCHANGED <<gm, loop>>
                  /\ cl' = [cl EXCEPT ![c].activeGame = None, ![c].active = FALSE]
                  /\ th' = [th EXCEPT ![t].pc = "cu.check"]
                  /\ UNCHANGED panicked
        /\ UNCHANGED <<mmVars, wr, cd, bc, gc, got, hist>>

\* RunListeners, lines 193-195 and 235-237: remainingClient.send <- msg
LoopCancelSend(g) ==
    /\ loop[g].pc = "cancel"
    /\ \E x \in loop[g].todo :
          /\ CanSend(x)
          /\ IF SendPanics(x)
               THEN Panic(CancelOnClosed) /\ UNCHANGED <<cl, loop, got>>
               ELSE /\ cl' = Push(cl, x)
                    /\ got' = Count(got, x, "game_cancelled")
                    /\ loop' = [loop EXCEPT ![g].todo = @ \ {x}]
                    /\ UNCHANGED panicked
    /\ UNCHANGED <<mmVars, th, wr, gm, cd, bc, gc, hist>>

\* RunListeners, lines 197-198 and 238-239: g.Cleanup(); return.  Cleanup,
\* lines 249-255: g.cancel(); every attached client leaves both registries
\* and has its activeGame cleared
LoopCleanup(g) ==
    /\ loop[g].pc = "cancel"
    /\ loop[g].todo = {}
    /\ gm' = [gm EXCEPT ![g].ctxDone = TRUE, ![g].Clients = {}, ![g].Players = {}]
    /\ cl' = [x \in Clients |-> IF x \in gm[g].Clients
                                  THEN [cl[x] EXCEPT !.activeGame = None] ELSE cl[x]]
    /\ loop' = [loop EXCEPT ![g].pc = "exited"]
    /\ UNCHANGED <<mmVars, th, wr, cd, bc, gc, panicked, got, hist>>

\* RunListeners, lines 201-206, without the loop over g.Clients of lines
\* 202-204
LoopCountdownDoneQuiet(g) ==
    /\ loop[g].pc = "p1"
    /\ gm[g].countdownDone
    /\ bc' = [bc EXCEPT ![g].pc = "init"]
    /\ loop' = [loop EXCEPT ![g].pc = "p2"]
    /\ UNCHANGED <<mmVars, cl, th, wr, gm, cd, gc, panicked, got, hist>>

\* RunListeners, lines 201-206: <-g.countdownDone
LoopCountdownDone(g) ==
    /\ loop[g].pc = "p1"
    /\ gm[g].countdownDone
    /\ cl' = [x \in Clients |-> IF x \in gm[g].Clients
                                  THEN [cl[x] EXCEPT !.status = StatusInGame] ELSE cl[x]]
    /\ bc' = [bc EXCEPT ![g].pc = "init"]
    /\ loop' = [loop EXCEPT ![g].pc = "p2"]
    /\ UNCHANGED <<mmVars, th, wr, gm, cd, gc, panicked, got, hist>>

\* broadcastMessage, lines 101-109, for one client: the message is put on its
\* channel (non-blocking)
Reachable(x) ==
    ~cl[x].ctxDone /\ ~cl[x].sendNil /\ ~cl[x].sendClosed /\ cl[x].sendLen < SendCap

\* the non-blocking send panics: the channel is closed
BroadcastPanics(x) == ~cl[x].ctxDone /\ ~cl[x].sendNil /\ cl[x].sendClosed

\* the connection records after the message is put on the channel of every
\* client of S
PushAll(clf, S) ==
    [x \in Clients |-> IF x \in S THEN [clf[x] EXCEPT !.sendLen = @ + 1] ELSE clf[x]]

\* RunListeners, lines 208-209 and 242-243: message := <-g.Broadcast;
\* g.broadcastMessage(message).  The attached clients are visited in the
\* map's order; at the first one whose context is done or whose channel
\* takes no message the loop runs `g.remove <- client`, a send on the
\* unbuffered channel that only this loop receives from
BroadcastMessage(g) ==
    LET all == gm[g].Clients
        ok == {x \in all : Reachable(x)}
    IN  /\ AtSelect(g)
        /\ \/ /\ ok = all
              /\ cl' = PushAll(cl, all)
              /\ UNCHANGED <<loop, panicked>>
           \/ \E b \in all \ ok, S \in SUBSET ok :
                 IF BroadcastPanics(b)
                   THEN Panic(SendOnClosed) /\ UNCHANGED <<cl, loop>>
                   ELSE /\ cl' = PushAll(cl, S)
                        /\ loop' = [loop EXCEPT ![g].pc = "remove", ![g].arg = b]
                        /\ UNCHANGED panicked

\* StartCountdown, lines 282-283: client.send <- confirmMsg, for the next
\* client of g.Clients
CountdownConfirm(g) ==
    /\ cd[g].pc = "confirm"
    /\ \E x \in gm[g].Clients \ cd[g].visited :
          /\ CanSend(x)
          /\ IF SendPanics(x)
               THEN Panic(SendOnClosed) /\ UNCHANGED <<cl, cd, got>>
               ELSE /\ cl' = Push(cl, x)
                    /\ got' = Count(got, x, "game_confirmed")
                    /\ cd' = [cd EXCEPT ![g].pc = "confirm.set",
                                        ![g].visited = @ \cup {x},
                                        ![g].client = Some(x),
                                        ![g].readyBefore = (cl[x].status = StatusReady)]
                    /\ UNCHANGED panicked
    /\ UNCHANGED <<mmVars, th, wr, gm, loop, bc, gc, hist>>

\* StartCountdown, line 284: client.SetStatus(StatusConfirming), the plain
\* assignment of main.go 1449-1451, for the client the message went to
CountdownSetStatus(g) ==
    /\ cd[g].pc = "confirm.set"
    /\ cl' = [cl EXCEPT ![cd[g].client[1]].status = StatusConfirming]
    /\ cd' = [cd EXCEPT ![g].pc = "confirm", ![g].client = None, ![g].readyBefore = FALSE]
    /\ UNCHANGED <<mmVars, th, wr, gm, loop, bc, gc, panicked, got, hist>>

\* StartCountdown, lines 287-293: the range is over; the ticker starts
CountdownStart(g) ==
    /\ cd[g].pc = "confirm"
    /\ gm[g].Clients \ cd[g].visited = {}
    /\ cd' = NoteAllReady([cd EXCEPT ![g].pc = "wait", ![g].timeLeft = DefaultCountdown], cl)
    /\ UNCHANGED <<mmVars, cl, th, wr, gm, loop, bc, gc, panicked, got, hist>>

\* StartCountdown, lines 298-299, with timeLeft -= 2 * time.Second
CountdownTickTwo(g) ==
    /\ cd[g].pc = "wait"
    /\ cd' = [cd EXCEPT ![g].pc = "send", ![g].timeLeft = @ - 2,
                        ![g].ticks = IF @ <= DefaultCountdown THEN @ + 1 ELSE @,
                        ![g].sinceAllReady = IF cd[g].allReadyMet /\ @ <= ReadyCountdown
                                               THEN @ + 1 ELSE @,
                        ![g].sinceClamp = IF cd[g].clamped THEN @ + 1 ELSE @]
    /\ UNCHANGED <<mmVars, cl, th, wr, gm, loop, bc, gc, panicked, got, hist>>

\* StartCountdown, lines 298-299: <-ticker.C; timeLeft -= time.Second
CountdownTick(g) ==
    /\ cd[g].pc = "wait"
    /\ cd' = [cd EXCEPT ![g].pc = "send", ![g].timeLeft = @ - 1,
                        ![g].ticks = IF @ <= DefaultCountdown THEN @ + 1 ELSE @,
                        ![g].sinceAllReady = IF cd[g].allReadyMet /\ @ <= ReadyCountdown
                                               THEN @ + 1 ELSE @,
                        ![g].sinceClamp = IF cd[g].clamped THEN @ + 1 ELSE @]
    /\ UNCHANGED <<mmVars, cl, th, wr, gm, loop, bc, gc, panicked, got, hist>>

\* StartCountdown, lines 296-297: <-g.ctx.Done()
CountdownCancelled(g) ==
    /\ cd[g].pc = "wait"
    /\ gm[g].ctxDone
    /\ cd' = [cd EXCEPT ![g].pc = "exited"]
    /\ UNCHANGED <<mmVars, cl, th, wr, gm, loop, bc, gc, panicked, got, hist>>

\* StartCountdown, line 303: g.Broadcast <- msg, received by the control loop
CountdownBroadcast(g) ==
    /\ cd[g].pc = "send"
    /\ BroadcastMessage(g)
    /\ cd' = IF panicked' # "" THEN cd
             ELSE [cd EXCEPT ![g].pc = "check", ![g].lastSent = cd[g].timeLeft]
    /\ UNCHANGED <<mmVars, th, wr, gm, bc, gc, got, hist>>

\* StartCountdown, line 305: the clamp applies
ClampAlways(timeLeft, allReady) == TRUE
Clamps(timeLeft, allReady) == timeLeft > ReadyCountdown /\ allReady

\* StartCountdown, lines 305-312: the clamp to readyCountdown, then
\* close(g.countdownDone) when no time is left
CountdownCheck(g) ==
    LET clamp == Clamps(cd[g].timeLeft, CheckAllPlayersReady(cl, g))
        left == IF clamp THEN ReadyCountdown ELSE cd[g].timeLeft
    IN  /\ cd[g].pc = "check"
        /\ cd' = [cd EXCEPT ![g].timeLeft = left,
                            ![g].clamped = @ \/ clamp,
                            ![g].sinceClamp = IF clamp /\ ~cd[g].clamped THEN 0 ELSE @,
                            ![g].pc = IF left <= 0 THEN "exited" ELSE "wait"]
        /\ gm' = [gm EXCEPT ![g].countdownDone = @ \/ left <= 0]
        /\ UNCHANGED <<mmVars, cl, th, wr, loop, bc, gc, panicked, got, hist>>

\* registerGame, lines 1361-1363: <-game.Context().Done(); the session
\* leaves both registries
WatcherRemove(g) ==
    /\ gc[g] = "waiting"
    /\ gm[g].ctxDone
    /\ headToHeadGames' = headToHeadGames \ {g}
    /\ activeChallenges' = [activeChallenges EXCEPT ![g] = None]
    /\ gc' = [gc EXCEPT ![g] = "done"]
    /\ UNCHANGED <<queue, cl, th, wr, gm, loop, cd, bc, panicked, got, hist>>

\* StartReading, line 1515: player_ready is read: cl.SetStatus(StatusReady)
RecvPlayerReady(c) ==
    /\ Reads(c)
    /\ cl[c].status # StatusReady
    /\ cl' = [cl EXCEPT ![c].status = StatusReady]
    /\ cd' = NoteAllReady(cd, cl')
    /\ hist' = LogOther
    /\ UNCHANGED <<mmVars, th, wr, gm, loop, bc, gc, panicked, got>>

(***************************************************************************)
(* Round policy (broadcaster.go) and player updates.                       *)
(***************************************************************************)
\* RaceLevelTarget, and the levels of the player_update requests
RaceLevelTarget == 10
UpdateLevels == {RaceLevelTarget, RaceLevelTarget + 1}

\* RaceBroadcaster.Start, line 110: game.State.MaxLevel > rb.levelTarget
ReachedTarget(level) == level >= RaceLevelTarget
Exceeds(level) == level > RaceLevelTarget

\* SprintBroadcaster.Start, line 66: case <-roundTimer.C can be taken
TimerAlways(b) == TRUE
TimerReady(b) == b.expired

\* Start, lines 48-58 / 93-101: broadcastInitialState: g.Broadcast <- initialMsg
PolicyInitial(g) ==
    /\ bc[g].pc = "init"
    /\ BroadcastMessage(g)
    /\ bc' = IF panicked' # "" THEN bc ELSE [bc EXCEPT ![g].pc = "run"]
    /\ UNCHANGED <<mmVars, th, wr, gm, cd, gc, got, hist>>

\* the runtime fires the round timer of a sprint session (time.NewTimer, line 50)
RoundTimerExpire(g) ==
    /\ gm[g].Mode = ModeSprint
    /\ bc[g].pc \in {"run", "send"}
    /\ ~bc[g].expired
    /\ bc' = [bc EXCEPT ![g].expired = TRUE]
    /\ UNCHANGED <<mmVars, cl, th, wr, gm, loop, cd, gc, panicked, got, hist>>

\* Start, lines 64-65 / 107-108: case <-game.ctx.Done(): return
PolicyCancelled(g) ==
    /\ bc[g].pc = "run"
    /\ gm[g].ctxDone
    /\ bc' = [bc EXCEPT ![g].pc = "exited"]
    /\ UNCHANGED <<mmVars, cl, th, wr, gm, loop, cd, gc, panicked, got, hist>>

\* SprintBroadcaster.Start, lines 66-67: case <-roundTimer.C: broadcastResult,
\* up to its send on g.Broadcast
PolicyTimer(g) ==
    /\ bc[g].pc = "run"
    /\ gm[g].Mode = ModeSprint
    /\ TimerReady(bc[g])
    /\ bc' = [bc EXCEPT ![g].pc = "send", ![g].msg = "round_result"]
    /\ UNCHANGED <<mmVars, cl, th, wr, gm, loop, cd, gc, panicked, got, hist>>

\* Start, lines 71-72 / 109-116: case <-ticker.C: the sprint policy sends a
\* game-state update; the race policy reads MaxLevel and sends the round
\* result when it exceeds the level target, else an update; up to the send
PolicyTick(g) ==
    LET level == gm[g].MaxLevel
        over == gm[g].Mode = ModeRace /\ Exceeds(level)
    IN  /\ bc[g].pc = "run"
        /\ bc' = [bc EXCEPT ![g].pc = "send", ![g].seen = level,
                            ![g].msg = IF over THEN "round_result" ELSE "game_state"]
        /\ UNCHANGED <<mmVars, cl, th, wr, gm, loop, cd, gc, panicked, got, hist>>

\* broadcastResult / broadcastUpdate: g.Broadcast <- msg, received by the
\* control loop; after the round result the policy returns
PolicyBroadcast(g) ==
    LET last == bc[g].msg = "round_result"
    IN  /\ bc[g].pc = "send"
        /\ BroadcastMessage(g)
        /\ bc' = IF panicked' # "" THEN bc
                 ELSE [bc EXCEPT ![g].pc = IF last THEN "exited" ELSE "run",
                                 ![g].msg = "", ![g].seen = 0,
                                 ![g].results = IF last /\ @ < MaxCount THEN @ + 1 ELSE @,
                                 ![g].lateUpdate = @ \/ (~last /\ bc[g].results > 0)]
        /\ UNCHANGED <<mmVars, th, wr, gm, cd, gc, got, hist>>

\* StartReading reads player_update: HandlePlayerUpdate, lines 1557-1561:
\* with a session bound, req.Level is compared with its MaxLevel
RecvPlayerUpdate(c, level) ==
    LET bound == cl[c].activeGame # None
        g == cl[c].activeGame[1]
    IN  /\ Reads(c)
        /\ hist' = LogOther
        /\ th' = IF bound /\ level > gm[g].MaxLevel
                   THEN [th EXCEPT ![T(c)].pc = "pu.set", ![T(c)].level = level]
                   ELSE th
        /\ UNCHANGED <<mmVars, cl, wr, gm, loop, cd, bc, gc, panicked, got>>

\* HandlePlayerUpdate, line 1562: cl.activeGame.SetMaxLevel(req.Level);
\* cl.activeGame is read again, and is nil when the session has cleaned up
HandlePlayerUpdate(c) ==
    LET t == T(c)
    IN  /\ th[t].pc = "pu.set"
        /\ IF cl[c].activeGame = None
             THEN Panic(NilDereference) /\ UNCHANGED <<gm, th>>
             ELSE /\ gm' = [gm EXCEPT ![cl[c].activeGame[1]].MaxLevel = th[t].level]
                  /\ th' = [th EXCEPT ![t] = At(t, "read")]
                  /\ UNCHANGED panicked
        /\ UNCHANGED <<mmVars, cl, wr, loop, cd, bc, gc, got, hist>>

\* a connection after its Cleanup: context cancelled, channel closed and
\* set to nil
GoneClient == [NewClient EXCEPT !.ctxDone = TRUE, !.sendClosed = TRUE, !.sendNil = TRUE]

\* the connections C are open and the others have come and gone
Connected(C) ==
    /\ cl = [c \in Clients |-> IF c \in C THEN NewClient ELSE GoneClient]
    /\ th = [t \in Threads |-> IF t[1] \in C THEN NewThread(t[2]) ELSE At(t, "done")]
    /\ wr = [c \in Clients |-> IF c \in C THEN "run" ELSE "exited"]

\* the state after main() has built the matchmaker and the connections C
\* were accepted
MainIdle(C) ==
    /\ queue = [m \in Modes |-> <<>>]
    /\ headToHeadGames = {}
    /\ activeChallenges = NoChallenges
    /\ Connected(C)
    /\ gm = [g \in GameIds |-> NoGame]
    /\ loop = [g \in GameIds |-> NoLoop]
    /\ cd = [g \in GameIds |-> NoCountdown]
    /\ bc = [g \in GameIds |-> NoPolicy]
    /\ gc = [g \in GameIds |-> "none"]
    /\ panicked = ""
    /\ got = [c \in Clients |-> [m \in Tracked |-> 0]]
    /\ hist = [joins |-> <<>>, onlyJoins |-> TRUE, cmds |-> 0, gone |-> 0]

(***************************************************************************)
(* Wire messages: ParseMessage (messages.go) and the dispatch of           *)
(* StartReading (main.go).                                                 *)
(***************************************************************************)
\* MessageType: the requests whose types are in messages.go, one type no
\* case of the switch names, and a frame without messageType
ReqJoinQueue == "join_queue"
ReqLeaveQueue == "leave_queue"
ReqPlayerUpdate == "player_update"
ReqPlayerReady == "player_ready"
RequestTypes == {ReqJoinQueue, ReqLeaveQueue, ReqPlayerUpdate, ReqPlayerReady}
FrameTypes == RequestTypes \cup {"exit_game", ""}

\* the JSON values of a payload's fields, as their texts: strings and numbers
StrTexts == {"sprint", "bogus"}
NumTexts == {"1", "-1"}
NumValue(text) == IF text = "1" THEN 1 ELSE IF text = "-1" THEN 0 - 1 ELSE 0

\* the keys a payload object can carry: game_mode of JoinQueueRequest, level
\* of PlayerUpdateRequest (its position and rotation are left out: they are
\* decoded like level and never validated), and one that no request has
PayloadKeys == {"game_mode", "level", "token"}
Objects == UNION {[D -> StrTexts \cup NumTexts] : D \in SUBSET PayloadKeys \ {{}}}

\* BaseMessage.Payload, the raw text of the payload: omitted, null, the empty
\* object written {} and written { }, a number, or an object with keys
PayloadForms == {"omitted", "null", "{}", "{ }", "number"}
Payloads ==
    [form : PayloadForms, obj : {<<>>}] \cup [form : {"object"}, obj : Objects]

\* what ReadMessage returns: text that is or is not a JSON object, and when
\* it is one its messageType and payload
NotJson == [json |-> FALSE, type |-> "", payload |-> [form |-> "omitted", obj |-> <<>>]]
Frames == {NotJson} \cup [json : {TRUE}, type : FrameTypes, payload : Payloads]

\* the struct fields of request type Ty, by json tag
FieldsOf(Ty) ==
    IF Ty = ReqJoinQueue THEN {"game_mode"}
    ELSE IF Ty = ReqPlayerUpdate THEN {"level"}
    ELSE {}

\* the Go type of a field takes a JSON string, or a JSON number
TakesString(f) == f = "game_mode"

\* var msg Ty: the zero value
ZeroOf(f) == IF TakesString(f) THEN "" ELSE "0"
Zero(Ty) == [f \in FieldsOf(Ty) |-> ZeroOf(f)]

\* RequiresPayload of the four request types
RequiresPayload(Ty) == Ty \in {ReqJoinQueue, ReqPlayerUpdate}

\* Validate of the four request types: JoinQueueRequest wants a game mode,
\* PlayerUpdateRequest a level that is not negative
Validate(Ty, msg) ==
    IF Ty = ReqJoinQueue THEN msg["game_mode"] \in Modes
    ELSE IF Ty = ReqPlayerUpdate THEN NumValue(msg["level"]) >= 0
    ELSE TRUE

\* ParseMessage, lines 85-90: decoder.DisallowUnknownFields();
\* decoder.Decode(&msg): a value that is no object, a key the struct has no
\* field for, or a value of the wrong JSON type is an error; fields without a
\* key keep their zero value
DecodeFails(Ty, payload) ==
    \/ payload.form = "number"
    \/ \E f \in DOMAIN payload.obj :
          \/ f \notin FieldsOf(Ty)
          \/ TakesString(f) /\ payload.obj[f] \notin StrTexts
          \/ ~TakesString(f) /\ payload.obj[f] \notin NumTexts

Decode(Ty, payload) ==
    [f \in FieldsOf(Ty) |-> IF f \in DOMAIN payload.obj THEN payload.obj[f] ELSE ZeroOf(f)]

\* ParseMessage, line 79: len(base.Payload) == 0 || string(base.Payload) ==
\* "null" || string(base.Payload) == "{}"
EmptyText(payload) == payload.form \in {"omitted", "null", "{}"}

\* ParseMessage[Ty](base), lines 75-99: the error, "" for none, and the message
ParseMessage(Ty, payload) ==
    IF EmptyText(payload)
      THEN IF RequiresPayload(Ty)
             THEN [err |-> "payload required", msg |-> <<>>]
             ELSE [err |-> "", msg |-> Zero(Ty)]
      ELSE IF DecodeFails(Ty, payload)
             THEN [err |-> "payload format", msg |-> <<>>]
             ELSE IF ~Validate(Ty, Decode(Ty, payload))
                    THEN [err |-> "validation", msg |-> <<>>]
                    ELSE [err |-> "", msg |-> Decode(Ty, payload)]

\* the read loop at ReadMessage with the frame it is about to get
WireIdle == rd = [pc |-> "read", frame |-> NotJson, handler |-> "", msg |-> <<>>]

\* StartReading, lines 1457-1543, one turn of the loop on a frame that was
\* read without error: json.Unmarshal fails: continue; the switch on the
\* type: ParseMessage fails: continue, else the handler of the type is
\* called with the message; no case: a warning.  In every case the loop
\* goes on to the next ReadMessage (only a read error breaks out of it)
StartReadingDispatch ==
    LET fr == rd.frame
        res == ParseMessage(fr.type, fr.payload)
        call == fr.json /\ fr.type \in RequestTypes /\ res.err = ""
    IN  /\ rd.pc = "read"
        /\ rd' = [rd EXCEPT !.pc = "next",
                            !.handler = IF call THEN fr.type ELSE "",
                            !.msg = IF call THEN res.msg ELSE <<>>]

\* ws.ReadMessage returns the next frame
StartReadingNext ==
    /\ rd.pc = "next"
    /\ \E fr \in Frames : rd' = [pc |-> "read", frame |-> fr, handler |-> "", msg |-> <<>>]

\* a connection's read loop on any sequence of frames
InitWire ==
    /\ WireIdle
    /\ MapInit
    /\ owner = [k \in MapKeys |-> None]
    /\ ScoreIdle
    /\ MainIdle(Clients)

NextWire ==
    \/ StartReadingDispatch /\ UNCHANGED <<mapVars, scoreVars, mainVars>>
    \/ StartReadingNext /\ UNCHANGED <<mapVars, scoreVars, mainVars>>

SpecWire == InitWire /\ [][NextWire]_vars

\* the concurrent workers of the registry's tests: worker w uses key w, and
\* key 0 is written by whoever holds the turn
InitMap ==
    /\ MapInit
    /\ owner = [k \in MapKeys |-> IF k = 0 THEN None ELSE Some(k)]
    /\ ScoreIdle
    /\ WireIdle
    /\ MainIdle(Clients)

NextMap ==
    \/ \E w \in Workers, k \in MapKeys, v \in Vals : SetLock(w, k, v) /\ UNCHANGED <<scoreVars, mainVars, wireVars>>
    \/ \E w \in Workers : Set(w) /\ UNCHANGED <<scoreVars, mainVars, wireVars>>
    \/ \E w \in Workers, k \in MapKeys : DelLock(w, k) /\ UNCHANGED <<scoreVars, mainVars, wireVars>>
    \/ \E w \in Workers : Del(w) /\ UNCHANGED <<scoreVars, mainVars, wireVars>>
    \/ \E w \in Workers, k \in MapKeys : GetLock(w, k) /\ UNCHANGED <<scoreVars, mainVars, wireVars>>
    \/ \E w \in Workers : Get(w) /\ UNCHANGED <<scoreVars, mainVars, wireVars>>

SpecMap == InitMap /\ [][NextMap]_vars

\* one caller that uses every key, as in the registry's sequential tests
InitMapSeq ==
    /\ MapInit
    /\ owner = [k \in MapKeys |-> Some(1)]
    /\ ScoreIdle
    /\ WireIdle
    /\ MainIdle(Clients)

NextMapSeq ==
    \/ NextMap
    \/ \E w \in Workers : ValuesLock(w) /\ UNCHANGED <<scoreVars, mainVars, wireVars>>
    \/ \E w \in Workers : Values(w) /\ UNCHANGED <<scoreVars, mainVars, wireVars>>
    \/ \E w \in Workers : KeysLock(w) /\ UNCHANGED <<scoreVars, mainVars, wireVars>>
    \/ \E w \in Workers : Keys(w) /\ UNCHANGED <<scoreVars, mainVars, wireVars>>
    \/ \E w \in Workers : ResetKeysLock(w) /\ UNCHANGED <<scoreVars, mainVars, wireVars>>
    \/ \E w \in Workers : ResetKeys(w) /\ UNCHANGED <<scoreVars, mainVars, wireVars>>
    \/ \E w \in Workers : ResetDelLock(w) /\ UNCHANGED <<scoreVars, mainVars, wireVars>>
    \/ \E w \in Workers : ResetDel(w) /\ UNCHANGED <<scoreVars, mainVars, wireVars>>

SpecMapSeq == InitMapSeq /\ [][NextMapSeq]_vars

InitScore ==
    /\ ScoreIdle
    /\ WireIdle
    /\ MapInit
    /\ owner = [k \in MapKeys |-> None]
    /\ MainIdle(Clients)

NextScore ==
    \/ \E p \in PlayerIds : PlayersSet(p) /\ UNCHANGED <<mapVars, mainVars, wireVars>>
    \/ \E p \in PlayerIds : PlayersDel(p) /\ UNCHANGED <<mapVars, mainVars, wireVars>>
    \/ \E p \in PlayerIds, lvl \in Levels : PlayerLevelUpdate(p, lvl) /\ UNCHANGED <<mapVars, mainVars, wireVars>>
    \/ GetRoundResult /\ UNCHANGED <<mapVars, mainVars, wireVars>>

SpecScore == InitScore /\ [][NextScore]_vars

\* the matchmaking queues: connections join and leave, pairs are matched into
\* sessions and the sessions confirm them
InitQueue ==
    /\ MainIdle(Clients)
    /\ MapInit
    /\ owner = [k \in MapKeys |-> None]
    /\ ScoreIdle
    /\ WireIdle

NextQueue ==
    \/ \E c \in Clients, mode \in Modes :
          Running /\ RecvJoinQueue(c, mode) /\ UNCHANGED <<mapVars, scoreVars, wireVars>>
    \/ \E c \in Clients :
          Running /\ AddToQueueJoined(c) /\ UNCHANGED <<mapVars, scoreVars, wireVars>>
    \/ \E g \in GameIds, t \in Threads :
          Running /\ LoopAdd(g, t) /\ UNCHANGED <<mapVars, scoreVars, wireVars>>
    \/ \E c \in Clients :
          Running /\ AddToQueuePop(c) /\ UNCHANGED <<mapVars, scoreVars, wireVars>>
    \/ \E c \in Clients :
          Running /\ RecvLeaveQueue(c) /\ UNCHANGED <<mapVars, scoreVars, wireVars>>
    \/ \E t \in Threads :
          Running /\ RemoveFromQueue(t) /\ UNCHANGED <<mapVars, scoreVars, wireVars>>
    \/ \E g \in GameIds :
          Running /\ CountdownConfirm(g) /\ UNCHANGED <<mapVars, scoreVars, wireVars>>
    \/ \E g \in GameIds :
          Running /\ CountdownSetStatus(g) /\ UNCHANGED <<mapVars, scoreVars, wireVars>>
    \/ \E g \in GameIds :
          Running /\ CountdownStart(g) /\ UNCHANGED <<mapVars, scoreVars, wireVars>>
    \/ \E c \in Clients :
          Running /\ WriterWrite(c) /\ UNCHANGED <<mapVars, scoreVars, wireVars>>

SpecQueue == InitQueue /\ [][NextQueue]_vars

(***************************************************************************)
(* Claims about the concurrent registry.                                   *)
(***************************************************************************)

\* one connection: it joins and leaves the queues and goes away, and
\* Cleanup is called a second time while its first call is running
InitCleanup ==
    /\ MainIdle({1})
    /\ MapInit
    /\ owner = [k \in MapKeys |-> None]
    /\ ScoreIdle
    /\ WireIdle

NextCleanup ==
    \/ \E c \in Clients, mode \in Modes :
          Running /\ RecvJoinQueue(c, mode) /\ UNCHANGED <<mapVars, scoreVars, wireVars>>
    \/ \E c \in Clients :
          Running /\ AddToQueueJoined(c) /\ UNCHANGED <<mapVars, scoreVars, wireVars>>
    \/ \E g \in GameIds, t \in Threads :
          Running /\ LoopAdd(g, t) /\ UNCHANGED <<mapVars, scoreVars, wireVars>>
    \/ \E c \in Clients :
          Running /\ AddToQueuePop(c) /\ UNCHANGED <<mapVars, scoreVars, wireVars>>
    \/ \E c \in Clients :
          Running /\ RecvLeaveQueue(c) /\ UNCHANGED <<mapVars, scoreVars, wireVars>>
    \/ \E t \in Threads :
          Running /\ RemoveFromQueue(t) /\ UNCHANGED <<mapVars, scoreVars, wireVars>>
    \/ \E c \in Clients :
          Running /\ RecvError(c) /\ UNCHANGED <<mapVars, scoreVars, wireVars>>
    \/ \E c \in Clients :
          Running /\ CleanupAgain(c) /\ UNCHANGED <<mapVars, scoreVars, wireVars>>
    \/ \E t \in Threads :
          Running /\ CleanupGame(t) /\ UNCHANGED <<mapVars, scoreVars, wireVars>>
    \/ \E t \in Threads :
          Running /\ CleanupRemove(t) /\ UNCHANGED <<mapVars, scoreVars, wireVars>>
    \/ \E t \in Threads :
          Running /\ CleanupCheck(t) /\ UNCHANGED <<mapVars, scoreVars, wireVars>>
    \/ \E t \in Threads :
          Running /\ CleanupClose(t) /\ UNCHANGED <<mapVars, scoreVars, wireVars>>
    \/ \E t \in Threads :
          Running /\ CleanupNil(t) /\ UNCHANGED <<mapVars, scoreVars, wireVars>>
    \/ \E c \in Clients :
          Running /\ WriterWrite(c) /\ UNCHANGED <<mapVars, scoreVars, wireVars>>
    \/ \E c \in Clients :
          Running /\ WriterStop(c) /\ UNCHANGED <<mapVars, scoreVars, wireVars>>

SpecCleanup == InitCleanup /\ [][NextCleanup]_vars

\* AddToQueue has matched clients 1 and 2 into sprint session 1, which is about to
\* confirm them; queue_joined is in their channels or written already; the
\* other connections have come and gone
SessionFormed ==
    /\ queue = [m \in Modes |-> <<>>]
    /\ headToHeadGames = {1}
    /\ activeChallenges = NoChallenges
    /\ \E n1, n2 \in 0..1 :
          cl = [c \in Clients |->
                  IF c \in {1, 2}
                    THEN [NewClient EXCEPT !.activeGame = Some(1), !.active = TRUE,
                                           !.sendLen = IF c = 1 THEN n1 ELSE n2]
                    ELSE GoneClient]
    /\ th = [t \in Threads |-> IF t[1] \in {1, 2} THEN NewThread(t[2]) ELSE At(t, "done")]
    /\ wr = [c \in Clients |-> IF c \in {1, 2} THEN "run" ELSE "exited"]
    /\ gm = [g \in GameIds |->
               IF g = 1 THEN [NewGame(ModeSprint) EXCEPT !.Clients = {1, 2}, !.Players = {1, 2}]
                        ELSE NoGame]
    /\ loop = [g \in GameIds |->
                 IF g = 1 THEN [NoLoop EXCEPT !.pc = "p1", !.countdownStarted = TRUE]
                          ELSE NoLoop]
    /\ cd = [g \in GameIds |-> IF g = 1 THEN [NoCountdown EXCEPT !.pc = "confirm",
                                                                   !.attached = {1, 2}]
                                        ELSE NoCountdown]
    /\ bc = [g \in GameIds |-> NoPolicy]
    /\ gc = [g \in GameIds |-> IF g = 1 THEN "waiting" ELSE "none"]
    /\ panicked = ""
    /\ got = [c \in Clients |-> [m \in Tracked |-> 0]]
    /\ hist = [joins |-> <<>>, onlyJoins |-> FALSE, cmds |-> 0, gone |-> 0]

\* a session from its countdown on, while its clients stay: they report
\* ready, the countdown runs out and the round begins
InitCountdown ==
    /\ SessionFormed
    /\ MapInit
    /\ owner = [k \in MapKeys |-> None]
    /\ ScoreIdle
    /\ WireIdle

NextCountdown ==
    \/ \E g \in GameIds :
          Running /\ CountdownConfirm(g) /\ UNCHANGED <<mapVars, scoreVars, wireVars>>
    \/ \E g \in GameIds :
          Running /\ CountdownSetStatus(g) /\ UNCHANGED <<mapVars, scoreVars, wireVars>>
    \/ \E g \in GameIds :
          Running /\ CountdownStart(g) /\ UNCHANGED <<mapVars, scoreVars, wireVars>>
    \/ \E g \in GameIds :
          Running /\ CountdownTick(g) /\ UNCHANGED <<mapVars, scoreVars, wireVars>>
    \/ \E g \in GameIds :
          Running /\ CountdownBroadcast(g) /\ UNCHANGED <<mapVars, scoreVars, wireVars>>
    \/ \E g \in GameIds :
          Running /\ CountdownCheck(g) /\ UNCHANGED <<mapVars, scoreVars, wireVars>>
    \/ \E g \in GameIds :
          Running /\ LoopCountdownDone(g) /\ UNCHANGED <<mapVars, scoreVars, wireVars>>
    \/ \E c \in Clients :
          Running /\ RecvPlayerReady(c) /\ UNCHANGED <<mapVars, scoreVars, wireVars>>
    \/ \E c \in Clients :
          Running /\ WriterWrite(c) /\ UNCHANGED <<mapVars, scoreVars, wireVars>>

SpecCountdown == InitCountdown /\ [][NextCountdown]_vars

\* the session of SessionFormed later in its countdown: both clients are
\* confirmed, their channels drained, and LastSeconds seconds are left
LastSeconds == 3
SessionCounting ==
    /\ queue = [m \in Modes |-> <<>>]
    /\ headToHeadGames = {1}
    /\ activeChallenges = NoChallenges
    /\ cl = [c \in Clients |->
               IF c \in {1, 2}
                 THEN [NewClient EXCEPT !.activeGame = Some(1), !.active = TRUE,
                                        !.status = StatusConfirming]
                 ELSE GoneClient]
    /\ th = [t \in Threads |-> IF t[1] \in {1, 2} THEN NewThread(t[2]) ELSE At(t, "done")]
    /\ wr = [c \in Clients |-> IF c \in {1, 2} THEN "run" ELSE "exited"]
    /\ gm = [g \in GameIds |->
               IF g = 1 THEN [NewGame(ModeSprint) EXCEPT !.Clients = {1, 2}, !.Players = {1, 2}]
                        ELSE NoGame]
    /\ loop = [g \in GameIds |->
                 IF g = 1 THEN [NoLoop EXCEPT !.pc = "p1", !.countdownStarted = TRUE]
                          ELSE NoLoop]
    /\ cd = [g \in GameIds |->
               IF g = 1 THEN [NoCountdown EXCEPT !.pc = "wait", !.visited = {1, 2},
                                                 !.attached = {1, 2},
                                                 !.timeLeft = LastSeconds,
                                                 !.ticks = DefaultCountdown - LastSeconds,
                                                 !.lastSent = LastSeconds]
                        ELSE NoCountdown]
    /\ bc = [g \in GameIds |-> NoPolicy]
    /\ gc = [g \in GameIds |-> IF g = 1 THEN "waiting" ELSE "none"]
    /\ panicked = ""
    /\ got = [c \in Clients |-> [m \in Tracked |-> 0]]
    /\ hist = [joins |-> <<>>, onlyJoins |-> FALSE, cmds |-> 0, gone |-> 0]

\* a session whose clients go away, during the countdown or in the round
InitOrphan ==
    /\ SessionCounting
    /\ MapInit
    /\ owner = [k \in MapKeys |-> None]
    /\ ScoreIdle
    /\ WireIdle

NextOrphan ==
    \/ \E g \in GameIds :
          Running /\ CountdownTick(g) /\ UNCHANGED <<mapVars, scoreVars, wireVars>>
    \/ \E g \in GameIds :
          Running /\ CountdownCancelled(g) /\ UNCHANGED <<mapVars, scoreVars, wireVars>>
    \/ \E g \in GameIds :
          Running /\ CountdownBroadcast(g) /\ UNCHANGED <<mapVars, scoreVars, wireVars>>
    \/ \E g \in GameIds :
          Running /\ CountdownCheck(g) /\ UNCHANGED <<mapVars, scoreVars, wireVars>>
    \/ \E g \in GameIds :
          Running /\ LoopCountdownDone(g) /\ UNCHANGED <<mapVars, scoreVars, wireVars>>
    \/ \E c \in Clients :
          Running /\ RecvError(c) /\ UNCHANGED <<mapVars, scoreVars, wireVars>>
    \/ \E t \in Threads :
          Running /\ CleanupGame(t) /\ UNCHANGED <<mapVars, scoreVars, wireVars>>
    \/ \E t \in Threads :
          Running /\ CleanupRemove(t) /\ UNCHANGED <<mapVars, scoreVars, wireVars>>
    \/ \E t \in Threads :
          Running /\ CleanupCheck(t) /\ UNCHANGED <<mapVars, scoreVars, wireVars>>
    \/ \E t \in Threads :
          Running /\ CleanupClose(t) /\ UNCHANGED <<mapVars, scoreVars, wireVars>>
    \/ \E t \in Threads :
          Running /\ CleanupNil(t) /\ UNCHANGED <<mapVars, scoreVars, wireVars>>
    \/ \E g \in GameIds :
          Running /\ LoopCancelSend(g) /\ UNCHANGED <<mapVars, scoreVars, wireVars>>
    \/ \E g \in GameIds :
          Running /\ LoopCleanup(g) /\ UNCHANGED <<mapVars, scoreVars, wireVars>>
    \/ \E g \in GameIds :
          Running /\ WatcherRemove(g) /\ UNCHANGED <<mapVars, scoreVars, wireVars>>
    \/ \E c \in Clients :
          Running /\ WriterWrite(c) /\ UNCHANGED <<mapVars, scoreVars, wireVars>>
    \/ \E c \in Clients :
          Running /\ WriterStop(c) /\ UNCHANGED <<mapVars, scoreVars, wireVars>>

SpecOrphan == InitOrphan /\ [][NextOrphan]_vars

\* registerGame, lines 1360-1365: the watcher is a goroutine of its own that
\* only waits on the session's context, so once the context is done it is
\* runnable until it has run, and the scheduler runs it
WatcherFair ==
    \A g \in GameIds :
        WF_vars(Running /\ WatcherRemove(g) /\ UNCHANGED <<mapVars, scoreVars, wireVars>>)

SpecOrphanFair == SpecOrphan /\ WatcherFair

\* direct challenges: connections create challenge sessions, accept them by
\* id and go away, up to the first tick of the countdown
InitChallenge ==
    /\ MainIdle(Clients)
    /\ MapInit
    /\ owner = [k \in MapKeys |-> None]
    /\ ScoreIdle
    /\ WireIdle

NextChallenge ==
    \/ \E c \in Clients, mode \in Modes \cup {ModeOther} :
          Running /\ RecvCreateChallenge(c, mode) /\ UNCHANGED <<mapVars, scoreVars, wireVars>>
    \/ \E g \in GameIds, t \in Threads :
          Running /\ LoopAdd(g, t) /\ UNCHANGED <<mapVars, scoreVars, wireVars>>
    \/ \E c \in Clients :
          Running /\ CreateChallengeSet(c) /\ UNCHANGED <<mapVars, scoreVars, wireVars>>
    \/ \E c \in Clients :
          Running /\ CreateChallengeGame(c) /\ UNCHANGED <<mapVars, scoreVars, wireVars>>
    \/ \E c \in Clients, id \in GameIds :
          Running /\ RecvAcceptChallenge(c, id) /\ UNCHANGED <<mapVars, scoreVars, wireVars>>
    \/ \E c \in Clients :
          Running /\ AcceptChallengeStale(c) /\ UNCHANGED <<mapVars, scoreVars, wireVars>>
    \/ \E g \in GameIds :
          Running /\ CountdownConfirm(g) /\ UNCHANGED <<mapVars, scoreVars, wireVars>>
    \/ \E g \in GameIds :
          Running /\ CountdownSetStatus(g) /\ UNCHANGED <<mapVars, scoreVars, wireVars>>
    \/ \E g \in GameIds :
          Running /\ CountdownStart(g) /\ UNCHANGED <<mapVars, scoreVars, wireVars>>
    \/ \E g \in GameIds :
          Running /\ CountdownCancelled(g) /\ UNCHANGED <<mapVars, scoreVars, wireVars>>
    \/ \E c \in Clients :
          Running /\ RecvError(c) /\ UNCHANGED <<mapVars, scoreVars, wireVars>>
    \/ \E t \in Threads :
          Running /\ CleanupGame(t) /\ UNCHANGED <<mapVars, scoreVars, wireVars>>
    \/ \E t \in Threads :
          Running /\ CleanupRemove(t) /\ UNCHANGED <<mapVars, scoreVars, wireVars>>
    \/ \E t \in Threads :
          Running /\ CleanupCheck(t) /\ UNCHANGED <<mapVars, scoreVars, wireVars>>
    \/ \E t \in Threads :
          Running /\ CleanupClose(t) /\ UNCHANGED <<mapVars, scoreVars, wireVars>>
    \/ \E t \in Threads :
          Running /\ CleanupNil(t) /\ UNCHANGED <<mapVars, scoreVars, wireVars>>
    \/ \E g \in GameIds :
          Running /\ LoopCancelSend(g) /\ UNCHANGED <<mapVars, scoreVars, wireVars>>
    \/ \E g \in GameIds :
          Running /\ LoopCleanup(g) /\ UNCHANGED <<mapVars, scoreVars, wireVars>>
    \/ \E g \in GameIds :
          Running /\ WatcherRemove(g) /\ UNCHANGED <<mapVars, scoreVars, wireVars>>
    \/ \E c \in Clients :
          Running /\ WriterWrite(c) /\ UNCHANGED <<mapVars, scoreVars, wireVars>>
    \/ \E c \in Clients :
          Running /\ WriterStop(c) /\ UNCHANGED <<mapVars, scoreVars, wireVars>>

SpecChallenge == InitChallenge /\ [][NextChallenge]_vars

\* a queue-matched session of either mode whose countdown has just run out:
\* clients 1 and 2 are attached and in game, their channels drained, the
\* round policy has been started; the connections of idle are open and
\* idle, the others have come and gone
SessionActive(idle) ==
    /\ queue = [m \in Modes |-> <<>>]
    /\ headToHeadGames = {1}
    /\ activeChallenges = NoChallenges
    /\ cl = [c \in Clients |->
               IF c \in {1, 2}
                 THEN [NewClient EXCEPT !.activeGame = Some(1), !.active = TRUE,
                                        !.status = StatusInGame]
                 ELSE IF c \in idle THEN NewClient ELSE GoneClient]
    /\ th = [t \in Threads |->
               IF t[1] \in {1, 2} \cup idle THEN NewThread(t[2]) ELSE At(t, "done")]
    /\ wr = [c \in Clients |-> IF c \in {1, 2} \cup idle THEN "run" ELSE "exited"]
    /\ \E mode \in Modes :
          gm = [g \in GameIds |->
                  IF g = 1 THEN [NewGame(mode) EXCEPT !.Clients = {1, 2}, !.Players = {1, 2},
                                                      !.countdownDone = TRUE]
                           ELSE NoGame]
    /\ loop = [g \in GameIds |->
                 IF g = 1 THEN [NoLoop EXCEPT !.pc = "p2", !.countdownStarted = TRUE]
                          ELSE NoLoop]
    /\ cd = [g \in GameIds |->
               IF g = 1 THEN [NoCountdown EXCEPT !.pc = "exited", !.visited = {1, 2},
                                                 !.attached = {1, 2},
                                                 !.ticks = DefaultCountdown,
                                                 !.lastSent = 0]
                        ELSE NoCountdown]
    /\ bc = [g \in GameIds |-> IF g = 1 THEN [NoPolicy EXCEPT !.pc = "init"] ELSE NoPolicy]
    /\ gc = [g \in GameIds |-> IF g = 1 THEN "waiting" ELSE "none"]
    /\ panicked = ""
    /\ got = [c \in Clients |-> [m \in Tracked |-> 0]]
    /\ hist = [joins |-> <<>>, onlyJoins |-> FALSE, cmds |-> 0, gone |-> 0]

\* a session in its round: the policy broadcasts and ends the round, the
\* players report levels and go away
InitActive ==
    /\ SessionActive({})
    /\ MapInit
    /\ owner = [k \in MapKeys |-> None]
    /\ ScoreIdle
    /\ WireIdle

NextActive ==
    \/ \E g \in GameIds :
          Running /\ PolicyInitial(g) /\ UNCHANGED <<mapVars, scoreVars, wireVars>>
    \/ \E g \in GameIds :
          Running /\ RoundTimerExpire(g) /\ UNCHANGED <<mapVars, scoreVars, wireVars>>
    \/ \E g \in GameIds :
          Running /\ PolicyCancelled(g) /\ UNCHANGED <<mapVars, scoreVars, wireVars>>
    \/ \E g \in GameIds :
          Running /\ PolicyTimer(g) /\ UNCHANGED <<mapVars, scoreVars, wireVars>>
    \/ \E g \in GameIds :
          Running /\ PolicyTick(g) /\ UNCHANGED <<mapVars, scoreVars, wireVars>>
    \/ \E g \in GameIds :
          Running /\ PolicyBroadcast(g) /\ UNCHANGED <<mapVars, scoreVars, wireVars>>
    \/ \E c \in Clients, level \in UpdateLevels :
          Running /\ RecvPlayerUpdate(c, level) /\ UNCHANGED <<mapVars, scoreVars, wireVars>>
    \/ \E c \in Clients :
          Running /\ HandlePlayerUpdate(c) /\ UNCHANGED <<mapVars, scoreVars, wireVars>>
    \/ \E c \in Clients :
          Running /\ RecvError(c) /\ UNCHANGED <<mapVars, scoreVars, wireVars>>
    \/ \E t \in Threads :
          Running /\ CleanupGame(t) /\ UNCHANGED <<mapVars, scoreVars, wireVars>>
    \/ \E t \in Threads :
          Running /\ CleanupRemove(t) /\ UNCHANGED <<mapVars, scoreVars, wireVars>>
    \/ \E t \in Threads :
          Running /\ CleanupCheck(t) /\ UNCHANGED <<mapVars, scoreVars, wireVars>>
    \/ \E t \in Threads :
          Running /\ CleanupClose(t) /\ UNCHANGED <<mapVars, scoreVars, wireVars>>
    \/ \E t \in Threads :
          Running /\ CleanupNil(t) /\ UNCHANGED <<mapVars, scoreVars, wireVars>>
    \/ \E g \in GameIds :
          Running /\ LoopCancelSend(g) /\ UNCHANGED <<mapVars, scoreVars, wireVars>>
    \/ \E g \in GameIds :
          Running /\ LoopCleanup(g) /\ UNCHANGED <<mapVars, scoreVars, wireVars>>
    \/ \E g \in GameIds :
          Running /\ WatcherRemove(g) /\ UNCHANGED <<mapVars, scoreVars, wireVars>>
    \/ \E c \in Clients :
          Running /\ WriterWrite(c) /\ UNCHANGED <<mapVars, scoreVars, wireVars>>
    \/ \E c \in Clients :
          Running /\ WriterStop(c) /\ UNCHANGED <<mapVars, scoreVars, wireVars>>

SpecActive == InitActive /\ [][NextActive]_vars

\* the goroutines of a session (its control loop, its round policy, its
\* round timer and its watcher) are never starved: a step of one of them that
\* stays possible is taken
SessionStep(g) ==
    \/ PolicyInitial(g) \/ RoundTimerExpire(g) \/ PolicyCancelled(g) \/ PolicyTimer(g)
    \/ PolicyTick(g) \/ PolicyBroadcast(g)
    \/ LoopCancelSend(g) \/ LoopCleanup(g) \/ WatcherRemove(g)

SessionFair ==
    \A g \in GameIds :
        WF_vars(Running /\ SessionStep(g) /\ UNCHANGED <<mapVars, scoreVars, wireVars>>)

SpecActiveFair == SpecActive /\ SessionFair

\* the last seconds of a countdown and the beginning of the round, while the
\* clients stay: they report ready, the countdown runs out, the control loop
\* starts the round policy, which broadcasts
InitRound ==
    /\ SessionCounting
    /\ MapInit
    /\ owner = [k \in MapKeys |-> None]
    /\ ScoreIdle
    /\ WireIdle

NextRound ==
    \/ \E g \in GameIds :
          Running /\ CountdownTick(g) /\ UNCHANGED <<mapVars, scoreVars, wireVars>>
    \/ \E g \in GameIds :
          Running /\ CountdownBroadcast(g) /\ UNCHANGED <<mapVars, scoreVars, wireVars>>
    \/ \E g \in GameIds :
          Running /\ CountdownCheck(g) /\ UNCHANGED <<mapVars, scoreVars, wireVars>>
    \/ \E g \in GameIds :
          Running /\ LoopCountdownDone(g) /\ UNCHANGED <<mapVars, scoreVars, wireVars>>
    \/ \E c \in Clients :
          Running /\ RecvPlayerReady(c) /\ UNCHANGED <<mapVars, scoreVars, wireVars>>
    \/ \E g \in GameIds :
          Running /\ PolicyInitial(g) /\ UNCHANGED <<mapVars, scoreVars, wireVars>>
    \/ \E g \in GameIds :
          Running /\ PolicyTick(g) /\ UNCHANGED <<mapVars, scoreVars, wireVars>>
    \/ \E g \in GameIds :
          Running /\ PolicyBroadcast(g) /\ UNCHANGED <<mapVars, scoreVars, wireVars>>
    \/ \E c \in Clients :
          Running /\ WriterWrite(c) /\ UNCHANGED <<mapVars, scoreVars, wireVars>>

SpecRound == InitRound /\ [][NextRound]_vars

\* a session in its round while connections name its id in accept_challenge
\* and go away
InitLate ==
    /\ SessionActive({3})
    /\ MapInit
    /\ owner = [k \in MapKeys |-> None]
    /\ ScoreIdle
    /\ WireIdle

NextLate ==
    \/ \E g \in GameIds :
          Running /\ PolicyInitial(g) /\ UNCHANGED <<mapVars, scoreVars, wireVars>>
    \/ \E g \in GameIds :
          Running /\ PolicyCancelled(g) /\ UNCHANGED <<mapVars, scoreVars, wireVars>>
    \/ \E c \in Clients, id \in GameIds :
          Running /\ RecvAcceptChallenge(c, id) /\ UNCHANGED <<mapVars, scoreVars, wireVars>>
    \/ \E c \in Clients :
          Running /\ AcceptChallengeStale(c) /\ UNCHANGED <<mapVars, scoreVars, wireVars>>
    \/ \E g \in GameIds, t \in Threads :
          Running /\ LoopAdd(g, t) /\ UNCHANGED <<mapVars, scoreVars, wireVars>>
    \/ \E g \in GameIds :
          Running /\ LoopReject(g) /\ UNCHANGED <<mapVars, scoreVars, wireVars>>
    \/ \E c \in Clients :
          Running /\ RecvError(c) /\ UNCHANGED <<mapVars, scoreVars, wireVars>>
    \/ \E t \in Threads :
          Running /\ CleanupGame(t) /\ UNCHANGED <<mapVars, scoreVars, wireVars>>
    \/ \E t \in Threads :
          Running /\ CleanupRemove(t) /\ UNCHANGED <<mapVars, scoreVars, wireVars>>
    \/ \E t \in Threads :
          Running /\ CleanupCheck(t) /\ UNCHANGED <<mapVars, scoreVars, wireVars>>
    \/ \E t \in Threads :
          Running /\ CleanupClose(t) /\ UNCHANGED <<mapVars, scoreVars, wireVars>>
    \/ \E t \in Threads :
          Running /\ CleanupNil(t) /\ UNCHANGED <<mapVars, scoreVars, wireVars>>
    \/ \E g \in GameIds :
          Running /\ LoopCancelSend(g) /\ UNCHANGED <<mapVars, scoreVars, wireVars>>
    \/ \E g \in GameIds :
          Running /\ LoopCleanup(g) /\ UNCHANGED <<mapVars, scoreVars, wireVars>>
    \/ \E g \in GameIds :
          Running /\ WatcherRemove(g) /\ UNCHANGED <<mapVars, scoreVars, wireVars>>
    \/ \E c \in Clients :
          Running /\ WriterWrite(c) /\ UNCHANGED <<mapVars, scoreVars, wireVars>>
    \/ \E c \in Clients :
          Running /\ WriterStop(c) /\ UNCHANGED <<mapVars, scoreVars, wireVars>>

SpecLate == InitLate /\ [][NextLate]_vars

\* the three join_queue commands of the history were for one mode and three
\* clients, and every call has returned
ThreeJoined(m) ==
    /\ hist.onlyJoins
    /\ Len(hist.joins) = 3
    /\ \A i \in 1..3 : hist.joins[i][2] = m
    /\ Cardinality({hist.joins[i][1] : i \in 1..3}) = 3
    /\ InFlight = {}

\* C1: after AddToQueue was called for P1, P2, P3 in turn for one mode and
\* nothing else, exactly one session is registered, its clients are P1 and
\* P2, and the queue of the mode holds P3 alone
C1_PairThenWait ==
    \A m \in Modes :
        ThreeJoined(m) =>
            /\ Cardinality(headToHeadGames) = 1
            /\ \A g \in headToHeadGames :
                  gm[g].Clients = {hist.joins[1][1], hist.joins[2][1]}
            /\ queue[m] = <<hist.joins[3][1]>>

\* C1: the three calls have returned, in race mode
C1_Witness ==
    /\ ThreeJoined(ModeRace)
    /\ hist.joins[1][1] = 2

\* C2: a completed RemoveFromQueue(c) for a queued client c leaves the queue
\* equal to its contents without c
C2_RemoveFilters ==
    [][\A t \in Threads :
          (th[t].pc = "rq.left" /\ th'[t].pc # "rq.left"
              /\ Contains(queue[th[t].mode], t[1]))
          => queue'[th[t].mode] = FilterOut(queue[th[t].mode], t[1])]_vars

\* C5: whatever the interleaving of two calls of Cleanup on one client, its
\* channel is closed once: no call closes a channel that is closed already
C5_ClosedOnce == panicked \notin {CloseOfClosed, CloseOfNil}

\* C3: once the control loop of a session that is counting down with two
\* clients has received the detach of one of them, it sends game_cancelled
\* to the other and terminates: the send does not panic, and when the loop
\* has returned the session is cancelled and the other client was sent
\* game_cancelled once
C3_DetachCancels ==
    \A g \in GameIds :
        gm[g].detached # {} =>
            /\ loop[g].pc \in {"cancel", "exited"}
            /\ panicked # CancelOnClosed
            /\ loop[g].pc = "exited" =>
                  /\ gm[g].ctxDone
                  /\ \A x \in {1, 2} \ gm[g].detached : got[x]["game_cancelled"] = 1

\* C4: the control loop never stalls on a client it cannot reach: it is never
\* blocked in the send to its own remove channel
C4_LoopNeverStalls == \A g \in GameIds : loop[g].pc # "remove"

C9_LastSetWins ==
    /\ \A k \in MapKeys :
          (\A w \in Workers : wk[w].pc = "idle" \/ wk[w].key # k) => data[k] = lastSet[k]
    /\ \A w \in Workers :
          (wk[w].pc = "idle" /\ wk[w].op = "Get" /\ owner[wk[w].key] = Some(w))
          => wk[w].ret = Lookup(lastSet, wk[w].key)

\* worker 1 has read back its own Set while worker 2 is inside a Set on its
\* key and the shared key has been written
C9_Witness ==
    /\ wk[1].pc = "idle" /\ wk[1].op = "Get" /\ wk[1].key = 1
    /\ lastSet[1] = Some(MaxVal) /\ wk[1].ret = <<MaxVal, TRUE>>
    /\ wk[2].pc = "locked" /\ wk[2].op = "Set" /\ wk[2].key = 2
    /\ data[2] # None /\ data[2] # Some(wk[2].val)
    /\ data[0] # None

CountIn(s, v) == Cardinality({i \in DOMAIN s : s[i] = v})

\* C10: for one caller: Get after Set(k, v) returns (v, true); Get after
\* Del(k) reports not found; Values returns one value per key present; Reset
\* leaves no key, so that Values after Reset returns the empty sequence.
C10_Sequential ==
    \A w \in Workers : (wk[w].pc = "idle" /\ OwnsAll(w)) =>
        /\ (wk[w].op = "Get" /\ wk[w].last[1] = "Set" /\ wk[w].last[2] = wk[w].key)
              => wk[w].ret = <<wk[w].last[3], TRUE>>
        /\ (wk[w].op = "Get" /\ wk[w].last[1] = "Del" /\ wk[w].last[2] = wk[w].key)
              => wk[w].ret[2] = FALSE
        /\ wk[w].op = "Values"
              => /\ Len(wk[w].retSeq) = Cardinality(KeysOf(data))
                 /\ \A v \in Vals : CountIn(wk[w].retSeq, v)
                                       = Cardinality({k \in MapKeys : data[k] = Some(v)})
        /\ wk[w].op = "Reset" => KeysOf(data) = {}
        /\ (wk[w].op = "Values" /\ wk[w].last[1] = "Reset") => wk[w].retSeq = <<>>

\* Values has returned the empty sequence right after a Reset that had every
\* key to delete
C10_Witness ==
    /\ wk[1].pc = "idle" /\ wk[1].op = "Values" /\ wk[1].last[1] = "Reset"
    /\ wk[1].retSeq = <<>>
    /\ \A k \in MapKeys : lastSet[k] = None /\ data[k] = None

(***************************************************************************)
(* Claims about round-result scoring.                                      *)
(***************************************************************************)

\* C7: the result of GetRoundResult lists one score (username, flag, level)
\* per player in the registry and nothing else, levels non-increasing.
C7_RoundResultRanked ==
    calls >= 1 =>
        /\ \E f \in Perms(Present) :
              /\ Len(f) = Len(result)
              /\ \A i \in 1..Len(f) : result[i] = PlayerScore(f[i])
        /\ \A i, j \in 1..Len(result) : i < j => result[i].Level >= result[j].Level

\* players 1, 2, 3 at levels 5, 3, 7 are listed as 7, 5, 3
C7_Witness ==
    /\ calls >= 1
    /\ Present = {1, 2, 3}
    /\ players[1].Level = 5 /\ players[2].Level = 3 /\ players[3].Level = 7
    /\ result = <<PlayerScore(3), PlayerScore(1), PlayerScore(2)>>

\* C8: two calls of GetRoundResult against the same unmodified state return
\* the same ordering, equal levels included.
C8_RepeatedCallSameOrder ==
    calls >= 2 => result = prevResult


(***************************************************************************)
(* Claims about the matchmaker and the sessions' membership.               *)
(***************************************************************************)
\* the sessions whose attached set holds client c
AttachedTo(c) == {g \in GameIds : c \in gm[g].Clients}

\* C11: every client is in the attached set of at most one session
C11_OneSessionPerClient ==
    \A c \in Clients : Cardinality(AttachedTo(c)) <= 1

\* C12: no matchmaking queue holds a client that is in the attached set of
\* a session
C12_QueuedNotAttached ==
    \A m \in Modes, c \in Clients : Contains(queue[m], c) => AttachedTo(c) = {}


\* C13: whenever the control loop of a session is between two iterations
\* (waiting in a select, not yet started, or returned), the player ids in the
\* session's player registry are those of its attached clients
C13_RegistryMirrorsClients ==
    \A g \in GameIds :
        (AtSelect(g) \/ loop[g].pc \in {"none", "exited"}) =>
            gm[g].Players = gm[g].Clients

\* C13 happens: a session attached a client and detached it again, and its
\* loop waits in the select with both sets empty
C13_Witness ==
    \E g \in GameIds, c \in Clients :
        /\ gm[g].created /\ loop[g].pc = "p1" /\ ~gm[g].ctxDone
        /\ gm[g].Clients = {} /\ gm[g].Players = {}
        /\ cl[c].ctxDone /\ th[T(c)].pc = "cu.check"


\* C14: while the control loop of a session in its round is answering an
\* attach request, the attached set and the player registry still agree (the
\* request changed neither), and the send of join_running_game to the joiner
\* never ends the process, so the session keeps running
C14_LateJoinRejected ==
    /\ \A g \in GameIds : loop[g].pc = "reject" => gm[g].Players = gm[g].Clients
    /\ panicked # RejectOnClosed

\* C15: AcceptChallenge attaches the client to the referenced session exactly
\* when the id was a pending challenge at the lookup; for an id that was not
\* pending (unknown, already accepted, a queue-matched session) it takes the
\* challenge_stale path and attaches nothing
C15_AcceptOnlyPending ==
    \A t \in Threads :
        th[t].pc \in {"ac.add", "ac.stale"} => (th[t].pc = "ac.add" <=> th[t].pending)

\* C16: when CreateChallengeGame(c, mode) is about to return (its send of
\* challenge_created goes through), the session it created is in the session
\* registry with that mode, c is its only attached client and the pending
\* challenges map the session's id to the mode; no session exists with an
\* invalid mode
C16_ChallengeCreated ==
    /\ \A c \in Clients :
          LET t == T(c)
              g == th[t].game
          IN  (th[t].pc = "cc.created" /\ CanSend(c) /\ ~SendPanics(c)) =>
                  /\ g \in headToHeadGames
                  /\ gm[g].Mode = th[t].mode
                  /\ gm[g].Clients = {c}
                  /\ activeChallenges[g] = Some(th[t].mode)
    /\ \A g \in GameIds : gm[g].created => gm[g].Mode \in Modes

C16_Witness ==
    \E c \in Clients, g \in GameIds :
        /\ th[T(c)].pc = "read" /\ got[c].challenge_created = 1
        /\ g \in headToHeadGames /\ gm[g].Clients = {c}
        /\ activeChallenges[g] = Some(gm[g].Mode)

\* C17: a session leaves the session registry only after its context is
\* done (its watcher has run only then), and every registered session whose
\* context is done is eventually out of the session registry, with no
\* pending challenge left under its id
C17_WatcherRemoves ==
    /\ [](\A g \in GameIds :
             /\ (gm[g].created /\ g \notin headToHeadGames) => gm[g].ctxDone
             /\ gc[g] = "done" => gm[g].ctxDone)
    /\ \A g \in GameIds :
          (gm[g].ctxDone /\ g \in headToHeadGames)
              ~> (g \notin headToHeadGames /\ activeChallenges[g] = None)

\* C18: once the control loop of a session has broadcast the round result,
\* the session terminates: its control loop returns and its context is
\* cancelled, also with two clients still attached
C18_RoundOverTerminates ==
    \A g \in GameIds :
        bc[g].results > 0 ~> (loop[g].pc = "exited" /\ gm[g].ctxDone)

\* C19: in a race session the policy tick that reads a maximum level above
\* the level target sends the round result and no update, a tick that reads
\* one at or below the target never sends the round result, the control loop
\* takes at most one round result, and no game-state update after it
C19_RaceRoundResult ==
    \A g \in GameIds :
        gm[g].Mode = ModeRace =>
            /\ bc[g].pc = "send" =>
                   (bc[g].msg = "round_result" <=> bc[g].seen > RaceLevelTarget)
            /\ bc[g].results <= 1
            /\ ~bc[g].lateUpdate
            /\ bc[g].results = 1 => bc[g].pc = "exited"

C19_Witness ==
    \E g \in GameIds :
        /\ gm[g].Mode = ModeRace /\ gm[g].MaxLevel > RaceLevelTarget
        /\ bc[g].results = 1 /\ bc[g].pc = "exited" /\ loop[g].pc = "p2"

\* C20: in a sprint session the round result is sent by the policy, and
\* taken by the control loop, only when the round timer has expired; the
\* control loop takes at most one round result and no game-state update after
\* it; and once the session's context is done no round result is taken at all
C20_SprintRoundResult ==
    /\ [](\A g \in GameIds :
             gm[g].Mode = ModeSprint =>
                 /\ (bc[g].pc = "send" /\ bc[g].msg = "round_result") => bc[g].expired
                 /\ bc[g].results > 0 => bc[g].expired
                 /\ bc[g].results <= 1
                 /\ ~bc[g].lateUpdate
                 /\ bc[g].results = 1 => bc[g].pc = "exited")
    /\ [][\A g \in GameIds :
             (gm[g].Mode = ModeSprint /\ gm[g].ctxDone) =>
                 bc'[g].results = bc[g].results]_vars

C20_Witness ==
    \E g \in GameIds :
        /\ gm[g].Mode = ModeSprint /\ bc[g].expired
        /\ bc[g].results = 1 /\ bc[g].pc = "exited" /\ loop[g].pc = "p2"

\* RemoveFromQueue, lines 1323 and 1337: neither slices.Contains finds c
NotQueued(c) == \A m \in Modes : ~Contains(queue[m], c)

\* C21: RemoveFromQueue(c) for a client that is in neither queue takes the
\* error return: its goroutine does not go on to the send of queue_left, the
\* step leaves both queues, every connection and the messages sent as they
\* are, and queue_left is only ever sent by a goroutine that found its
\* client in a queue
C21_RemoveNotQueued ==
    [][/\ \A t \in Threads :
             (NotQueued(t[1]) /\ th[t].pc # "rq.left") => th'[t].pc # "rq.left"
       /\ \A c \in Clients :
             got'[c].queue_left # got[c].queue_left =>
                 \E k \in {1, 2} : th[<<c, k>>].pc = "rq.left"
       /\ \A c \in Clients :
             (NotQueued(c) /\ th[T(c)].pc = "read" /\ th' = th
              /\ hist'.cmds = hist.cmds + 1) =>
                 (queue' = queue /\ cl' = cl /\ got' = got)]_vars

C21_Witness ==
    /\ hist.cmds = 1 /\ ~hist.onlyJoins
    /\ \A c \in Clients : NotQueued(c) /\ th[T(c)].pc = "read" /\ got[c].queue_left = 0

\* C22: a frame that is not JSON, has a type no case handles, lacks the
\* payload its type requires (omitted, null or an empty object), has a
\* payload that is no object, has a key its type has no field for or a value
\* of the wrong kind, or fails the type's validation, reaches no handler,
\* and the read loop goes on to the next frame
C22_BadFrameNotHandled ==
    LET fr == rd.frame
        Ty == fr.type
        pl == fr.payload
        lacks == RequiresPayload(Ty) /\ pl.form \in {"omitted", "null", "{}", "{ }"}
        illFormed == pl.form = "number" \/ DecodeFails(Ty, pl)
        invalid == pl.form = "object" /\ ~DecodeFails(Ty, pl) /\ ~Validate(Ty, Decode(Ty, pl))
        bad == ~fr.json \/ Ty \notin RequestTypes \/ lacks \/ illFormed \/ invalid
    IN  (rd.pc = "next" /\ bad) => rd.handler = ""

\* C23: the step in which a session's control loop runs g.Cleanup leaves
\* every connection's context and outbound channel as they are; and a
\* goroutine in Client.Cleanup that found a bound session still has it when
\* it makes its detach attempt, and has cleared the reference when it moves on
C23_CleanupFrames ==
    /\ [][\A g \in GameIds :
             (loop[g].pc = "cancel" /\ loop'[g].pc = "exited") =>
                 \A c \in Clients :
                     /\ cl'[c].ctxDone = cl[c].ctxDone
                     /\ cl'[c].sendClosed = cl[c].sendClosed
                     /\ cl'[c].sendNil = cl[c].sendNil
                     /\ cl'[c].sendLen = cl[c].sendLen]_vars
    /\ [][\A t \in Threads :
             (th[t].pc = "cu.remove" /\ th'[t].pc # "cu.remove") =>
                 cl'[t[1]].activeGame = None]_vars
    /\ [](\A t \in Threads : th[t].pc = "cu.remove" => cl[t[1]].activeGame # None)

\* C24: a message a session pushes to a client never panics on a closed
\* channel, and the control loop is never at a push to a client whose channel
\* takes nothing any more (it has been set to nil, or it is full with the
\* client's write pump gone), where a direct send blocks for ever
C24_SessionPushSafe ==
    /\ panicked \notin {CancelOnClosed, RejectOnClosed}
    /\ \A g \in GameIds :
          loop[g].pc = "cancel" =>
              \A x \in loop[g].todo :
                  /\ ~cl[x].sendNil
                  /\ ~(cl[x].sendLen = SendCap /\ ~cl[x].sendClosed /\ wr[x] = "exited")

\* C25: a Client.Cleanup is never at the queue-left notification of its
\* RemoveFromQueue with nothing left that could take the message: the client's
\* own channel full or nil and its write pump returned, where the send blocks
\* for ever and Cleanup does not complete
C25_CleanupNeverBlocks ==
    \A t \in Threads :
        (th[t].pc = "rq.left" /\ th[t].ret = "cu.game") =>
            ~(~CanSend(t[1]) /\ wr[t[1]] = "exited")

\* C26: once a session's context is cancelled and its control loop has
\* returned, no worker of the session is left at a send on the session's
\* unbuffered Broadcast channel, which nothing receives from any more: neither
\* the round-policy worker nor the countdown worker
C26_WorkersExit ==
    \A g \in GameIds :
        (gm[g].ctxDone /\ loop[g].pc = "exited") =>
            (bc[g].pc # "send" /\ cd[g].pc # "send")

\* C27: a session's maximum level is never about to be written by a
\* connection's read loop (HandlePlayerUpdate past its comparison) while
\* another worker is at an access to it with nothing ordering the two: the
\* round-policy worker waiting for the tick on which it reads the level, or
\* the read loop of another connection at the same write
C27_LoopOnlyAccess ==
    \A g \in GameIds, c \in Clients :
        (th[T(c)].pc = "pu.set" /\ cl[c].activeGame = Some(g)) =>
            /\ bc[g].pc # "run"
            /\ \A d \in Clients \ {c} :
                  ~(th[T(d)].pc = "pu.set" /\ cl[d].activeGame = Some(g))

\* C28: however AddToQueue and RemoveFromQueue calls of different connections
\* interleave on one mode's queue, no two AddToQueue calls are matching the
\* same queued client at once (each into a session of its own), and none
\* finds the queue shorter than the pair it is about to drop
C28_QueueExclusive ==
    /\ panicked # OutOfRange
    /\ \A t, u \in Threads :
          (/\ t # u
           /\ th[t].pc \in {"aq.add1", "aq.add2", "aq.pop"}
           /\ th[u].pc \in {"aq.add1", "aq.add2", "aq.pop"}
           /\ th[t].mode = th[u].mode)
          => {th[t].client1, th[t].client2} \cap {th[u].client1, th[u].client2} = {}

\* C29: no connection's read loop is at the send of an attach signal
\* (`game.Add() <- c` in AcceptChallenge, AddToQueue or CreateChallengeGame)
\* to a session whose control loop has returned, where nothing receives the
\* signal any more and the read loop is blocked for ever
C29_SignalToExitedDropped ==
    \A t \in Threads :
        th[t].pc \in AddPcs => loop[th[t].game].pc # "exited"

\* C30: while a session is counting down (its countdown started and not yet
\* complete, the control loop in its first phase) no step adds a client to
\* its attached set or to its player registry
C30_NoAttachWhileCounting ==
    [][\A g \in GameIds :
          (loop[g].pc = "p1" /\ loop[g].countdownStarted /\ ~gm[g].countdownDone) =>
              /\ gm'[g].Clients \subseteq gm[g].Clients
              /\ gm'[g].Players \subseteq gm[g].Players]_vars

\* C31: a countdown worker is started only by the step that brings a
\* session's attached count to 2 for the first time, never a second one; and
\* once the worker is past its confirmations it has sent game_confirmed to
\* every client that was attached when it was started
C31_CountdownOnce ==
    /\ [][\A g \in GameIds :
             (cd[g].pc # "confirm" /\ cd'[g].pc = "confirm") =>
                 /\ cd[g].pc = "none"
                 /\ ~loop[g].countdownStarted
                 /\ Cardinality(gm[g].Clients) < 2
                 /\ Cardinality(gm'[g].Clients) = 2]_vars
    /\ [](\A g \in GameIds :
             cd[g].pc \in {"wait", "send", "check", "exited"} =>
                 cd[g].attached \subseteq cd[g].visited)

\* C32: the step by which the control loop takes the countdown-complete
\* signal leaves every attached client with status in-game and starts the
\* round-policy worker; the worker is started by no other step and never a
\* second time; and until that step the session has no round-policy worker,
\* so that the loop takes no game-state snapshot from it
C32_RoundBegins ==
    /\ [][\A g \in GameIds :
             (loop[g].pc = "p1" /\ loop'[g].pc = "p2") =>
                 /\ gm[g].countdownDone
                 /\ \A x \in gm[g].Clients : cl'[x].status = StatusInGame
                 /\ bc[g].pc = "none" /\ bc'[g].pc = "init"]_vars
    /\ [][\A g \in GameIds :
             /\ (bc[g].pc # "init" /\ bc'[g].pc = "init") =>
                    (bc[g].pc = "none" /\ loop[g].pc = "p1" /\ loop'[g].pc = "p2")
             /\ (bc'[g] # bc[g] /\ bc[g].pc \in {"init", "send"}) => loop[g].pc = "p2"]_vars
    /\ [](\A g \in GameIds : loop[g].pc \in {"none", "p1"} => bc[g].pc = "none")

\* C32: the round has begun and the policy has broadcast its first snapshot
C32_Witness ==
    /\ loop[1].pc = "p2"
    /\ bc[1].pc = "run"
    /\ \A x \in gm[1].Clients : cl[x].status = StatusInGame
    /\ gm[1].Clients = {1, 2}

\* C33: in the round, once a detach has brought a session below two clients
\* the control loop sends game_cancelled to each remaining client without
\* panicking and without meeting a channel that takes nothing any more, and
\* when it has returned the session is cancelled and its attached set and
\* player registry are empty
C33_ActiveDetachCancels ==
    \A g \in GameIds :
        (gm[g].countdownDone /\ loop[g].pc \in {"cancel", "exited"}) =>
            /\ panicked # CancelOnClosed
            /\ \A x \in loop[g].todo : ~cl[x].sendNil
            /\ loop[g].pc = "exited" =>
                  (gm[g].ctxDone /\ gm[g].Clients = {} /\ gm[g].Players = {})

\* C34: countdownDone is closed only by the worker's check that finds no time
\* left, with the time left then exactly zero, and the worker returns at once
\* and for good, so the signal is raised once; each broadcast of the
\* remaining seconds is less than the one before; and the worker never waits
\* for a tick after its 30th: by then it has raised the signal
C34_CountdownSignal ==
    /\ [][\A g \in GameIds :
             /\ (gm'[g].countdownDone /\ ~gm[g].countdownDone) =>
                    /\ cd[g].pc = "check" /\ cd'[g].pc = "exited"
                    /\ cd'[g].timeLeft = 0
                    /\ cd[g].ticks <= DefaultCountdown
             /\ cd[g].pc = "exited" => cd'[g].pc = "exited"
             /\ (cd[g].pc = "send" /\ cd'[g].pc = "check") =>
                    cd[g].timeLeft < cd[g].lastSent]_vars
    /\ [](\A g \in GameIds :
             /\ cd[g].ticks <= DefaultCountdown
             /\ cd[g].pc = "wait" => cd[g].ticks < DefaultCountdown)

\* C34: a countdown that was never clamped has taken its 30 ticks and
\* raised the signal with no time left
C34_Witness ==
    /\ gm[1].countdownDone
    /\ cd[1].pc = "exited"
    /\ cd[1].ticks = DefaultCountdown
    /\ cd[1].timeLeft = 0
    /\ ~cd[1].clamped

\* C35: no session ever has more than two attached clients
C35_AtMostTwoAttached ==
    \A g \in GameIds : Cardinality(gm[g].Clients) <= 2

\* C36: a challenge session whose creator has disconnected before anyone
\* accepted is never left behind for good: registered and pending, nobody
\* attached, its control loop waiting in the first select, and no handler, no
\* Cleanup and no worker under way that could still cancel it
C36_OrphanSessionEnds ==
    \A g \in GameIds :
        ~(/\ g \in headToHeadGames
          /\ activeChallenges[g] # None
          /\ gm[g].Clients = {}
          /\ loop[g].pc = "p1" /\ ~loop[g].countdownStarted
          /\ ~gm[g].ctxDone
          /\ \A t \in Threads : th[t].pc \in {"read", "done", "none"})

\* C37: a client whose Cleanup has completed is in neither matchmaking queue
C37_GoneNotQueued ==
    \A c \in Clients : th[T(c)].pc = "done" => NotQueued(c)

\* C38: no queue holds a client twice, and no AddToQueue call is matching a
\* client with itself: the two clients it has taken off the head of the queue
\* for a new session are distinct
C38_DistinctPair ==
    /\ \A m \in Modes :
          \A i, j \in 1..Len(queue[m]) : queue[m][i] = queue[m][j] => i = j
    /\ \A t \in Threads :
          th[t].pc \in {"aq.add1", "aq.add2", "aq.pop"} => th[t].client1 # th[t].client2

\* C39: no step lowers a session's maximum level, and the step by which a
\* read loop completes HandlePlayerUpdate for a client bound to the session
\* leaves the maximum at least at the level of that update
C39_MaxLevelMonotone ==
    [][/\ \A g \in GameIds : gm'[g].MaxLevel >= gm[g].MaxLevel
       /\ \A c \in Clients :
             (th[T(c)].pc = "pu.set" /\ th'[T(c)].pc = "read" /\ cl[c].activeGame # None) =>
                 gm'[cl[c].activeGame[1]].MaxLevel >= th[T(c)].level]_vars

\* C40: a ready report handled after the client was sent game_confirmed is
\* not lost: when the countdown worker has sent game_confirmed to a client
\* that was not ready and has not yet assigned its status, the writer has
\* written the message to the connection, and the client's read loop has set
\* the status to ready since, no step puts the status back to confirming
C40_ReadyNotOverwritten ==
    [][\A g \in GameIds : \A c \in Clients :
          (/\ cd[g].pc = "confirm.set"
           /\ cd[g].client = Some(c)
           /\ ~cd[g].readyBefore
           /\ cl[c].sendLen = 0
           /\ cl[c].status = StatusReady) =>
              cl'[c].status # StatusConfirming]_vars
=============================================================================
